---- MODULE Spec2Model ----
(***************************************************************************)
(* PixVault (harvest): the resilient acquisition engine.                   *)
(*                                                                         *)
(*   Part 1  RateLimiter          src/harvest/tasks.py                     *)
(*   Part 2  calculate_delay      src/harvest/utils/retry.py               *)
(*   Part 3  retry executors      src/harvest/utils/retry.py               *)
(*   Part 4  Celery tasks         src/harvest/tasks.py                     *)
(*   Part 5  ProxyManager         src/harvest/proxy_manager.py             *)
(*   Part 6  ProxyManager: concurrent marks, pool file, health report      *)
(*   Part 7  Celery tasks: denials, fan-out, status, termination, cancel   *)
(*   Part 8  WorkerMonitor, WorkerManager, rate table, proxied download    *)
(*                                                                         *)
(* Times of the rate limiter are whole clock seconds (int(time.time())).   *)
(* Delays of the retry mechanism are in milliseconds.                      *)
(***************************************************************************)
EXTENDS Integers, Sequences, FiniteSets, TLC

(***************************************************************************)
(* Bounds of the model.                                                    *)
(***************************************************************************)
MaxTime == 6
MaxConcTime == 2
MaxLimit == 2
MaxWindow == 2
MaxCalls == 3
MaxConcCalls == 2
MaxRetriesBound == 2
MaxAttempt == 3
MaxResults == 2
MaxItems == 2
MaxProxies == 2
MaxMarks == 2

Domains == {"api.example.com", "pixabay.com"}
Workers == {"w1", "w2"}
Hosts == {"a.example.com", "b.example.com"}

VARIABLES
    \* ---- Redis db 1 and the wall clock (shared by every worker) ----
    now,        \* int(time.time()), seconds since the epoch of the model
    zset,       \* zset[d]: the sorted set at key rate_limit:<d>, as {[member, score]}
    expireAt,   \* expireAt[d]: clock second in which the key's TTL runs out, NoTTL if none
    \* ---- the arguments the callers of the limiter pass ----
    argLimit,   \* limit argument (0 stands for None / omitted)
    argWindow,  \* window argument (0 stands for None / omitted)
    \* ---- observation of the calls made ----
    admitLog,   \* admitLog[d]: clock seconds of the is_allowed calls that returned True
    lastOp,     \* the call that returned last within the current second: [op, domain, result]
    nCalls,     \* number of is_allowed calls started
    \* ---- workers inside is_allowed (one Redis command per step) ----
    wpc,        \* wpc[w]: "idle", "purge", "count", "add", "expire"
    wdom,       \* wdom[w]: domain of the call in progress
    wtime,      \* wtime[w]: current_time of the call in progress
    wcount,     \* wcount[w]: current_requests of the call in progress
    \* ---- calculate_delay ----
    dConfig,    \* the RetryConfig under test
    dPrev,      \* the evaluation before: [attempt, delay], NoEval if none
    dCur,       \* the latest evaluation: [attempt, delay], NoEval if none
    \* ---- retry executor ----
    rKind,      \* "decorator", "async", "get", "post"
    rConfig,    \* the RetryConfig of the executor
    rPc,        \* "loop", "returned", "raised"
    rAttempt,   \* loop variable attempt
    rOutcomes,  \* outcome of each invocation of the operation, in order
    rSleeps,    \* duration of each backoff sleep, in order
    rLast,      \* last_exception
    rResult,    \* what the executor returned or raised
    \* ---- Celery tasks ----
    tasks,      \* tasks[id]: the message and result-backend state of a WorkItem
    \* ---- ProxyManager ----
    proxies,            \* self.proxies: the ProxyInfo objects, in list order
    bad_proxies,        \* self.bad_proxies: positions in proxies of its members
    current_index,      \* self.current_index
    max_failures,       \* self.max_failures
    rotation_strategy,  \* self.rotation_strategy
    pmLast,     \* the ProxyManager call that returned last: [op, idx, res]
    rrLog,      \* results of the round-robin get_proxy calls made in a row
    \* ---- workers inside get_proxy (one statement per step) ----
    gpPc,       \* gpPc[w]: "filter", "select", "advance", "update", "done"
    gpAvail,    \* gpAvail[w]: the local available_proxies
    gpProxy,    \* gpProxy[w]: the local proxy
    gpResult,   \* gpResult[w]: what the call returned or raised
    \* ---- pool file and health report of the ProxyManager ----
    pool_file,  \* the records save_proxy_pool wrote, NoFile while there is none
    hcResults,  \* what the latest health_check_all returned, with its probes
    \* ---- workers inside mark_bad / mark_success (one statement per step) ----
    mkPc,       \* mkPc[w]: "find", "load", "store", "check", "flag", "add", "done"
    mkOp,       \* mkOp[w]: "mark_bad" or "mark_success"
    mkInfo,     \* mkInfo[w]: the local proxy_info, a position in proxies (0: None)
    mkTmp,      \* mkTmp[w]: the counter value read by the += in progress
    mkCalls,    \* mkCalls[i]: the mark_bad and mark_success calls that found proxy i
    \* ---- task control ----
    revoked,    \* ids the workers hold as revoked
    statusLast, \* what the latest get_task_status call returned
    \* ---- WorkerMonitor ----
    monStatus,  \* monStatus[id]: the status field of the hash task_status:<id>
    monSeen,    \* the task events the monitor has handled: [id, type]
    \* ---- WorkerManager, the workers and the broker ----
    wmWorkers,  \* hostnames of the live workers
    wmBroker,   \* whether the broker can be reached
    wmQueues,   \* wmQueues[q]: messages of queue q, by where they are
    wmLast,     \* what the latest WorkerManager call returned
    \* ---- download_and_store_with_proxy ----
    dlPc,       \* "loop", "returned", "raised"
    dlAttempt,  \* loop variable attempt
    dlLog,      \* what each attempt did, in order
    dlResult,   \* result['status'] at the return
    dlMaxRetries, \* max_retries of the download configuration
    \* ---- the retry executors side by side ----
    eRun,       \* eRun[kind]: the executor of that kind: [pc, attempt, sleeps, result]
    eOutcomes   \* the per-attempt outcomes handed to the executors so far

rlVars == <<now, zset, expireAt, argLimit, argWindow, admitLog, lastOp, nCalls>>
wkVars == <<wpc, wdom, wtime, wcount>>
delayVars == <<dConfig, dPrev, dCur>>
retryVars == <<rKind, rConfig, rPc, rAttempt, rOutcomes, rSleeps, rLast, rResult>>
taskVars == <<tasks>>
proxyVars == <<proxies, bad_proxies, current_index, max_failures, rotation_strategy,
               pmLast, rrLog>>
gpVars == <<gpPc, gpAvail, gpProxy, gpResult>>
pfVars == <<pool_file, hcResults>>
mkVars == <<mkPc, mkOp, mkInfo, mkTmp, mkCalls>>
ctVars == <<revoked, statusLast>>
monVars == <<monStatus, monSeen>>
wmVars == <<wmWorkers, wmBroker, wmQueues, wmLast>>
dlVars == <<dlPc, dlAttempt, dlLog, dlResult, dlMaxRetries>>
eqVars == <<eRun, eOutcomes>>
opsVars == <<monVars, wmVars, dlVars, eqVars>>
vars == <<rlVars, wkVars, delayVars, retryVars, taskVars, proxyVars, gpVars,
          pfVars, mkVars, ctVars, opsVars>>

NoTTL == -1
None == "None"
NoEval == [attempt |-> -1, delay |-> 0]
NoExc == [cls |-> "None", status |-> 0]
NoCall == [op |-> "None", idx |-> 0, res |-> "None"]
NoResults == [total |-> -1, healthy |-> 0, unhealthy |-> 0, checked |-> 0, probes |-> <<>>]
\* A file that cannot be opened or parsed
NoFile == <<[host |-> "", success_count |-> 0, failure_count |-> 0,
             is_active |-> FALSE]>>
NoStatus == [task_id |-> -1, status |-> "None", result |-> "None", successful |-> "None"]
NoResult == [how |-> "none", value |-> NoExc]

Max(a, b) == IF a >= b THEN a ELSE b
Min(a, b) == IF a <= b THEN a ELSE b

(***************************************************************************)
(* Part 1.  RateLimiter                                                    *)
(***************************************************************************)

default_limit == 1
default_window == 5

\* str(n) for n >= 0: the decimal digits of n
RECURSIVE Str(_)
Str(n) == IF n < 10 THEN <<n>> ELSE Append(Str(n \div 10), n % 10)

\* int(s) for a string of decimal digits
RECURSIVE ParseInt(_)
ParseInt(s) ==
    IF Len(s) = 0 THEN 0
    ELSE ParseInt(SubSeq(s, 1, Len(s) - 1)) * 10 + s[Len(s)]

\* `x or default`: None and 0 are both falsy
OrDefault(x, d) == IF x = 0 THEN d ELSE x

\* ZREMRANGEBYSCORE key lo hi
ZRemRangeByScore(z, lo, hi) == {e \in z : ~(lo <= e.score /\ e.score <= hi)}

\* ZCARD key
ZCard(z) == Cardinality(z)

\* ZADD key {member: score}: a member already present only has its score updated
ZAdd(z, member, score) ==
    {e \in z : e.member # member} \cup {[member |-> member, score |-> score]}

\* ZRANGEBYSCORE key lo hi LIMIT 0 1: the members, lowest score first
ZRangeByScoreFirst(z, lo, hi) ==
    LET inr == {e \in z : lo <= e.score /\ e.score <= hi}
    IN  IF inr = {} THEN <<>>
        ELSE <<(CHOOSE e \in inr : \A f \in inr : e.score <= f.score).member>>

\* The key's TTL after a command left the set `z`: Redis deletes an empty sorted set
TTLAfter(z, ttl) == IF z = {} THEN NoTTL ELSE ttl

\* window_start of is_allowed
WindowStart(t, window) == t - OrDefault(window, default_window)

\* "Clean old entries", were an entry exactly `window` seconds old kept
PurgedKeepingBoundary(z, t, window) == ZRemRangeByScore(z, 0, WindowStart(t, window) - 1)

\* The set after "Clean old entries"
Purged(z, t, window) == ZRemRangeByScore(z, 0, WindowStart(t, window))

NoOp == [op |-> "none", domain |-> None, result |-> None]

\* The value RateLimiter.is_allowed returns at clock second `now`
Admits(domain, limit, window) ==
    ZCard(Purged(zset[domain], now, window)) < OrDefault(limit, default_limit)

\* RateLimiter.is_allowed, the whole call, made at clock second `now`
IsAllowed(domain, limit, window) ==
    LET win == OrDefault(window, default_window)
        current_time == now
        cleaned == Purged(zset[domain], current_time, window)
        ok == Admits(domain, limit, window)
    IN  /\ zset' = [zset EXCEPT ![domain] =
                      IF ok THEN ZAdd(cleaned, Str(current_time), current_time)
                      ELSE cleaned]
        /\ expireAt' = [expireAt EXCEPT ![domain] =
                      IF ok THEN current_time + win
                      ELSE TTLAfter(cleaned, expireAt[domain])]
        /\ admitLog' = [admitLog EXCEPT ![domain] =
                      IF ok THEN Append(@, current_time) ELSE @]

\* is_allowed called on its own: the caller sees its result
IsAllowedCall(domain, limit, window) ==
    /\ IsAllowed(domain, limit, window)
    /\ lastOp' = [op |-> "is_allowed", domain |-> domain,
                  result |-> Admits(domain, limit, window)]

\* The value RateLimiter.get_wait_time returns at clock second t
WaitTime(z, t, limit, window) ==
    LET win == OrDefault(window, default_window)
        oldest_requests == ZRangeByScoreFirst(z, t - win, t)
    IN  IF oldest_requests # <<>>
        THEN Max(0, (ParseInt(oldest_requests[1]) + win) - t)
        ELSE 0

\* RateLimiter.get_wait_time, the whole call
GetWaitTime(domain, limit, window) ==
    lastOp' = [op |-> "get_wait_time", domain |-> domain,
               result |-> WaitTime(zset[domain], now, limit, window)]

(***************************************************************************)
(* The clock and the key's time to live.                                   *)
(***************************************************************************)

\* A second passes. A TTL set during second t for win seconds runs out during
\* second t + win: once the clock shows a later second the key is gone.
ClockTo(t) ==
    /\ now' = t
    /\ zset' = [d \in Domains |->
                  IF expireAt[d] # NoTTL /\ expireAt[d] < t THEN {} ELSE zset[d]]
    /\ expireAt' = [d \in Domains |->
                  IF expireAt[d] # NoTTL /\ expireAt[d] < t THEN NoTTL ELSE expireAt[d]]
    /\ lastOp' = NoOp

TickTo(bound) ==
    /\ now < bound
    /\ ClockTo(now + 1)
    /\ UNCHANGED <<argLimit, argWindow, admitLog, nCalls>>
    /\ UNCHANGED <<wkVars, delayVars, retryVars, taskVars, proxyVars, gpVars,
                 pfVars, mkVars, ctVars, opsVars>>

Tick == TickTo(MaxTime)

TickConc == TickTo(MaxConcTime)

\* Redis drops the key when its TTL runs out, possibly within the second
Expire(d) ==
    /\ expireAt[d] # NoTTL
    /\ now >= expireAt[d]
    /\ zset' = [zset EXCEPT ![d] = {}]
    /\ expireAt' = [expireAt EXCEPT ![d] = NoTTL]
    /\ UNCHANGED <<now, argLimit, argWindow, admitLog, lastOp, nCalls>>
    /\ UNCHANGED <<wkVars, delayVars, retryVars, taskVars, proxyVars, gpVars,
                 pfVars, mkVars, ctVars, opsVars>>

(***************************************************************************)
(* Sequential use of the limiter: each call runs to completion.            *)
(***************************************************************************)
CallIsAllowed(d) ==
    /\ nCalls < MaxCalls
    /\ IsAllowedCall(d, argLimit, argWindow)
    /\ nCalls' = nCalls + 1
    /\ UNCHANGED <<now, argLimit, argWindow>>
    /\ UNCHANGED <<wkVars, delayVars, retryVars, taskVars, proxyVars, gpVars,
                 pfVars, mkVars, ctVars, opsVars>>

CallGetWaitTime(d) ==
    /\ GetWaitTime(d, argLimit, argWindow)
    /\ UNCHANGED <<now, zset, expireAt, argLimit, argWindow, admitLog, nCalls>>
    /\ UNCHANGED <<wkVars, delayVars, retryVars, taskVars, proxyVars, gpVars,
                 pfVars, mkVars, ctVars, opsVars>>

NextRL ==
    \/ \E d \in Domains : CallIsAllowed(d)
    \/ \E d \in Domains : CallGetWaitTime(d)
    \/ Tick
    \/ \E d \in Domains : Expire(d)

\* The limiter with an empty store, called with some limit and window; the
\* other parts stay dormant
InitRL ==
    /\ now = 0
    /\ zset = [d \in Domains |-> {}]
    /\ expireAt = [d \in Domains |-> NoTTL]
    /\ argLimit \in 0..MaxLimit
    /\ argWindow \in 0..MaxWindow
    /\ admitLog = [d \in Domains |-> <<>>]
    /\ lastOp = NoOp
    /\ nCalls = 0
    /\ wpc = [w \in Workers |-> "idle"]
    /\ wdom = [w \in Workers |-> None]
    /\ wtime = [w \in Workers |-> 0]
    /\ wcount = [w \in Workers |-> 0]
    /\ dConfig = None
    /\ dPrev = NoEval
    /\ dCur = NoEval
    /\ rKind = None
    /\ rConfig = None
    /\ rPc = None
    /\ rAttempt = 0
    /\ rOutcomes = <<>>
    /\ rSleeps = <<>>
    /\ rLast = NoExc
    /\ rResult = NoResult
    /\ tasks = <<>>
    /\ proxies = <<>>
    /\ bad_proxies = {}
    /\ current_index = 0
    /\ max_failures = 0
    /\ rotation_strategy = None
    /\ pmLast = NoCall
    /\ rrLog = <<>>
    /\ gpPc = [w \in Workers |-> "done"]
    /\ gpAvail = [w \in Workers |-> <<>>]
    /\ gpProxy = [w \in Workers |-> 0]
    /\ gpResult = [w \in Workers |-> NoCall]
    /\ pool_file = NoFile
    /\ hcResults = NoResults
    /\ mkPc = [w \in Workers |-> "done"]
    /\ mkOp = [w \in Workers |-> None]
    /\ mkInfo = [w \in Workers |-> 0]
    /\ mkTmp = [w \in Workers |-> 0]
    /\ mkCalls = <<>>
    /\ revoked = {}
    /\ statusLast = NoStatus
    /\ monStatus = <<>>
    /\ monSeen = {}
    /\ wmWorkers = {}
    /\ wmBroker = None
    /\ wmQueues = <<>>
    /\ wmLast = NoCall
    /\ dlPc = None
    /\ dlAttempt = 0
    /\ dlLog = <<>>
    /\ dlResult = None
    /\ dlMaxRetries = 0
    /\ eRun = <<>>
    /\ eOutcomes = <<>>

SpecRL == InitRL /\ [][NextRL]_vars

(***************************************************************************)
(* Concurrent use: workers interleave at the individual Redis commands.    *)
(***************************************************************************)

\* lines 80-85: the arguments, the key, current_time and window_start
RLBegin(w, d) ==
    /\ wpc[w] = "idle"
    /\ nCalls < MaxConcCalls
    /\ nCalls' = nCalls + 1
    /\ wdom' = [wdom EXCEPT ![w] = d]
    /\ wtime' = [wtime EXCEPT ![w] = now]
    /\ wpc' = [wpc EXCEPT ![w] = "purge"]
    /\ UNCHANGED <<now, zset, expireAt, argLimit, argWindow, admitLog, lastOp, wcount>>
    /\ UNCHANGED <<delayVars, retryVars, taskVars, proxyVars, gpVars,
                 pfVars, mkVars, ctVars, opsVars>>

\* line 88: zremrangebyscore
RLPurge(w) ==
    /\ wpc[w] = "purge"
    /\ LET cleaned == Purged(zset[wdom[w]], wtime[w], argWindow)
       IN  /\ zset' = [zset EXCEPT ![wdom[w]] = cleaned]
           /\ expireAt' = [expireAt EXCEPT ![wdom[w]] = TTLAfter(cleaned, @)]
    /\ wpc' = [wpc EXCEPT ![w] = "count"]
    /\ UNCHANGED <<now, argLimit, argWindow, admitLog, lastOp, nCalls, wdom, wtime, wcount>>
    /\ UNCHANGED <<delayVars, retryVars, taskVars, proxyVars, gpVars,
                 pfVars, mkVars, ctVars, opsVars>>

\* lines 91-93 and 99: zcard, the comparison, and `return False`
RLCount(w) ==
    /\ wpc[w] = "count"
    /\ LET current_requests == ZCard(zset[wdom[w]])
       IN  /\ wcount' = [wcount EXCEPT ![w] = current_requests]
           /\ IF current_requests < OrDefault(argLimit, default_limit)
              THEN /\ wpc' = [wpc EXCEPT ![w] = "add"]
                   /\ UNCHANGED lastOp
              ELSE /\ wpc' = [wpc EXCEPT ![w] = "idle"]
                   /\ lastOp' = [op |-> "is_allowed", domain |-> wdom[w], result |-> FALSE]
    /\ UNCHANGED <<now, zset, expireAt, argLimit, argWindow, admitLog, nCalls, wdom, wtime>>
    /\ UNCHANGED <<delayVars, retryVars, taskVars, proxyVars, gpVars,
                 pfVars, mkVars, ctVars, opsVars>>

\* line 95: zadd
RLAdd(w) ==
    /\ wpc[w] = "add"
    /\ zset' = [zset EXCEPT ![wdom[w]] = ZAdd(@, Str(wtime[w]), wtime[w])]
    /\ wpc' = [wpc EXCEPT ![w] = "expire"]
    /\ UNCHANGED <<now, expireAt, argLimit, argWindow, admitLog, lastOp, nCalls,
                   wdom, wtime, wcount>>
    /\ UNCHANGED <<delayVars, retryVars, taskVars, proxyVars, gpVars,
                 pfVars, mkVars, ctVars, opsVars>>

\* lines 96-97: expire, and `return True`
RLExpire(w) ==
    /\ wpc[w] = "expire"
    /\ expireAt' = [expireAt EXCEPT ![wdom[w]] =
                      TTLAfter(zset[wdom[w]], now + OrDefault(argWindow, default_window))]
    /\ admitLog' = [admitLog EXCEPT ![wdom[w]] = Append(@, wtime[w])]
    /\ lastOp' = [op |-> "is_allowed", domain |-> wdom[w], result |-> TRUE]
    /\ wpc' = [wpc EXCEPT ![w] = "idle"]
    /\ UNCHANGED <<now, zset, argLimit, argWindow, nCalls, wdom, wtime, wcount>>
    /\ UNCHANGED <<delayVars, retryVars, taskVars, proxyVars, gpVars,
                 pfVars, mkVars, ctVars, opsVars>>

NextRLConc ==
    \/ \E w \in Workers, d \in Domains : RLBegin(w, d)
    \/ \E w \in Workers : RLPurge(w)
    \/ \E w \in Workers : RLCount(w)
    \/ \E w \in Workers : RLAdd(w)
    \/ \E w \in Workers : RLExpire(w)
    \/ TickConc
    \/ \E d \in Domains : Expire(d)

SpecRLConc == InitRL /\ [][NextRLConc]_vars

(***************************************************************************)
(* Properties of the rate limiter.                                         *)
(***************************************************************************)
EffLimit == OrDefault(argLimit, default_limit)
EffWindow == OrDefault(argWindow, default_window)

\* Number of admissions of `log` that lie within the window ending at second t
AdmittedWithin(log, t) ==
    Cardinality({i \in 1..Len(log) : t - EffWindow < log[i] /\ log[i] <= t})

\* Whether an is_allowed call made right now would be admitted
WouldAdmit(d) == ZCard(Purged(zset[d], now, argWindow)) < EffLimit

\* C1: once L calls for a domain were admitted within W seconds (calls of one
\* clock second included), the next is_allowed call in that window returns
\* False, so an admitted call is never the (L+1)th of its window, and
\* get_wait_time is positive while L admissions lie in the window.
C1_LimitPlusOneDenied ==
    \A d \in Domains :
        /\ (lastOp.op = "is_allowed" /\ lastOp.domain = d /\ lastOp.result = TRUE)
              => AdmittedWithin(admitLog[d], now) <= EffLimit
        /\ (lastOp.op = "get_wait_time" /\ lastOp.domain = d
                /\ AdmittedWithin(admitLog[d], now) >= EffLimit)
              => lastOp.result > 0

\* C2: whatever the interleaving of the workers' store commands, the number of
\* calls admitted for a domain within any window of W seconds never exceeds
\* the limit.
C2_ConcurrentAdmissionsBounded ==
    \A d \in Domains : \A t \in 0..now :
        AdmittedWithin(admitLog[d], t) <= EffLimit

\* C3: with limit 1, after an admission at t0 a call at t is denied exactly
\* when t - t0 < W, get_wait_time then returns t0 + W - t, and a call with
\* t - t0 >= W is admitted.
C3_SingleSlotWindow ==
    EffLimit = 1 =>
        \A d \in Domains :
            LET log == admitLog[d]
                n == Len(log)
            IN  /\ (lastOp.op = "is_allowed" /\ lastOp.domain = d /\ lastOp.result = FALSE)
                      => (n >= 1 /\ now - log[n] < EffWindow)
                /\ (lastOp.op = "is_allowed" /\ lastOp.domain = d /\ lastOp.result = TRUE)
                      => (n >= 1 /\ log[n] = now
                          /\ (n >= 2 => log[n] - log[n - 1] >= EffWindow))
                /\ (lastOp.op = "get_wait_time" /\ lastOp.domain = d
                        /\ n >= 1 /\ now - log[n] < EffWindow)
                      => lastOp.result = log[n] + EffWindow - now

\* C3 witness: limit 1, window 5, admitted at t=0, and get_wait_time at t=2
\* has answered 3
C3_Witness ==
    /\ EffLimit = 1
    /\ EffWindow = 5
    /\ now = 2
    /\ \E d \in Domains :
          /\ admitLog[d] = <<0>>
          /\ ~WouldAdmit(d)
          /\ lastOp = [op |-> "get_wait_time", domain |-> d, result |-> 3]

\* C4: get_wait_time returns 0 whenever an is_allowed call made at the same
\* instant would be admitted.
C4_NoWaitWhenAdmissible ==
    \A d \in Domains :
        (lastOp.op = "get_wait_time" /\ lastOp.domain = d /\ WouldAdmit(d))
            => lastOp.result = 0

(***************************************************************************)
(* Part 2.  RetryConfig, is_retryable_error, calculate_delay               *)
(*                                                                         *)
(* Delays are whole milliseconds (1.0 s = 1000). exponential_base is kept  *)
(* in halves (4 = 2.0, 3 = 1.5, 2 = 1.0, 1 = 0.5).                         *)
(***************************************************************************)

\* The default retryable_exceptions tuple
DefaultRetryable == {"TimeoutException", "ConnectError", "NetworkError", "HTTPStatusError"}

\* RetryConfig() with every argument defaulted
DefaultRetryConfig ==
    [max_retries |-> 3, base_delay |-> 1000, max_delay |-> 60000,
     exponential_base |-> 4, jitter |-> TRUE,
     retryable_exceptions |-> DefaultRetryable]

\* The classes an exception of class cls is an instance of
Ancestors(cls) ==
    CASE cls = "ReadTimeout"      -> {"ReadTimeout", "TimeoutException", "TransportError",
                                      "HTTPError", "Exception"}
      [] cls = "TimeoutException" -> {"TimeoutException", "TransportError", "HTTPError",
                                      "Exception"}
      [] cls = "ConnectError"     -> {"ConnectError", "NetworkError", "TransportError",
                                      "HTTPError", "Exception"}
      [] cls = "NetworkError"     -> {"NetworkError", "TransportError", "HTTPError",
                                      "Exception"}
      [] cls = "HTTPStatusError"  -> {"HTTPStatusError", "HTTPError", "Exception"}
      [] OTHER                    -> {cls, "Exception"}

\* isinstance(exception, classes)
IsInstance(exception, classes) == Ancestors(exception.cls) \cap classes # {}

\* is_retryable_error(exception, config)
IsRetryableError(exception, config) ==
    \/ IsInstance(exception, config.retryable_exceptions)
    \/ /\ IsInstance(exception, {"HTTPStatusError"})
       /\ 500 <= exception.status
       /\ exception.status < 600

RECURSIVE Pow(_, _)
Pow(b, n) == IF n = 0 THEN 1 ELSE b * Pow(b, n - 1)

\* base_delay * exponential_base ** attempt, capped at max_delay
CappedDelay(attempt, config) ==
    Min((config.base_delay * Pow(config.exponential_base, attempt)) \div Pow(2, attempt),
        config.max_delay)

\* random.uniform(-r, r), sampled at its ends, its quarter points and its middle
Uniform(r) == {-r, -(r \div 2), 0, r \div 2, r}

\* calculate_delay(attempt, config): every value the call can return
CalculateDelaySet(attempt, config) ==
    LET delay == CappedDelay(attempt, config)
        jitter_range == delay \div 10
    IN  IF config.jitter
        THEN {Max(0, delay + j) : j \in Uniform(jitter_range)}
        ELSE {Max(0, delay)}

DelayConfigs ==
    [max_retries : {3}, base_delay : {500, 1000}, max_delay : {2000, 10000, 60000},
     exponential_base : {1, 2, 3, 4}, jitter : BOOLEAN,
     retryable_exceptions : {DefaultRetryable}]

\* One evaluation of calculate_delay(attempt, dConfig)
CalcDelay(attempt) ==
    /\ \E delay \in CalculateDelaySet(attempt, dConfig) :
          dCur' = [attempt |-> attempt, delay |-> delay]
    /\ dPrev' = dCur
    /\ UNCHANGED dConfig
    /\ UNCHANGED <<rlVars, wkVars, retryVars, taskVars, proxyVars, gpVars,
                 pfVars, mkVars, ctVars, opsVars>>

NextDelay == \E attempt \in 0..MaxAttempt : CalcDelay(attempt)

\* Some RetryConfig, calculate_delay not yet called
InitDelay ==
    /\ now = 0
    /\ zset = [d \in Domains |-> {}]
    /\ expireAt = [d \in Domains |-> NoTTL]
    /\ argLimit = 0
    /\ argWindow = 0
    /\ admitLog = [d \in Domains |-> <<>>]
    /\ lastOp = NoOp
    /\ nCalls = 0
    /\ wpc = [w \in Workers |-> "idle"]
    /\ wdom = [w \in Workers |-> None]
    /\ wtime = [w \in Workers |-> 0]
    /\ wcount = [w \in Workers |-> 0]
    /\ dConfig \in DelayConfigs
    /\ dPrev = NoEval
    /\ dCur = NoEval
    /\ rKind = None
    /\ rConfig = None
    /\ rPc = None
    /\ rAttempt = 0
    /\ rOutcomes = <<>>
    /\ rSleeps = <<>>
    /\ rLast = NoExc
    /\ rResult = NoResult
    /\ tasks = <<>>
    /\ proxies = <<>>
    /\ bad_proxies = {}
    /\ current_index = 0
    /\ max_failures = 0
    /\ rotation_strategy = None
    /\ pmLast = NoCall
    /\ rrLog = <<>>
    /\ gpPc = [w \in Workers |-> "done"]
    /\ gpAvail = [w \in Workers |-> <<>>]
    /\ gpProxy = [w \in Workers |-> 0]
    /\ gpResult = [w \in Workers |-> NoCall]
    /\ pool_file = NoFile
    /\ hcResults = NoResults
    /\ mkPc = [w \in Workers |-> "done"]
    /\ mkOp = [w \in Workers |-> None]
    /\ mkInfo = [w \in Workers |-> 0]
    /\ mkTmp = [w \in Workers |-> 0]
    /\ mkCalls = <<>>
    /\ revoked = {}
    /\ statusLast = NoStatus
    /\ monStatus = <<>>
    /\ monSeen = {}
    /\ wmWorkers = {}
    /\ wmBroker = None
    /\ wmQueues = <<>>
    /\ wmLast = NoCall
    /\ dlPc = None
    /\ dlAttempt = 0
    /\ dlLog = <<>>
    /\ dlResult = None
    /\ dlMaxRetries = 0
    /\ eRun = <<>>
    /\ eOutcomes = <<>>

SpecDelay == InitDelay /\ [][NextDelay]_vars

\* C5: for any RetryConfig, jitter or not, calculate_delay(n, config) is
\* non-decreasing in n and never exceeds config.max_delay.
C5_DelayMonotoneAndCapped ==
    /\ dCur # NoEval => dCur.delay <= dConfig.max_delay
    /\ (dCur # NoEval /\ dPrev # NoEval /\ dPrev.attempt <= dCur.attempt)
          => dPrev.delay <= dCur.delay

(***************************************************************************)
(* Part 3.  The retry executors: the retry_with_backoff decorator,         *)
(* async_retry_with_backoff and RetryableHTTPClient.get / post.            *)
(*                                                                         *)
(* What one invocation of the wrapped operation does:                      *)
(*   [how |-> "value"]                 it returns a value                  *)
(*   [how |-> "response", status]      the HTTP client returns a response  *)
(*   [how |-> "raise", cls, status]    it raises an exception              *)
(***************************************************************************)
Exc(cls, status) == [cls |-> cls, status |-> status]

Raises ==
    {[how |-> "raise", exc |-> e] :
        e \in {Exc("TimeoutException", 0), Exc("ValueError", 0),
               Exc("HTTPStatusError", 404), Exc("HTTPStatusError", 500)}}

\* func(*args, **kwargs) / await func()
FuncOutcomes == {[how |-> "value", exc |-> NoExc]} \cup Raises

\* self._client.get(url, **kwargs) / self._client.post(url, **kwargs)
ClientOutcomes ==
    {[how |-> "response", exc |-> Exc("Response", st)] : st \in {200, 404, 503}} \cup Raises

OperationOutcomes(kind) ==
    IF kind \in {"get", "post"} THEN ClientOutcomes ELSE FuncOutcomes

\* The try block, were a response returned whatever its status
RaisedOnlyByOperation(kind, outcome) ==
    IF outcome.how = "raise" THEN outcome.exc ELSE NoExc

\* The exception the try block ends with, NoExc if it returns. get and post
\* turn a 5xx response into an HTTPStatusError.
Raised(kind, outcome) ==
    CASE outcome.how = "raise" -> outcome.exc
      [] outcome.how = "response" /\ 500 <= outcome.exc.status /\ outcome.exc.status < 600
            -> Exc("HTTPStatusError", outcome.exc.status)
      [] OTHER -> NoExc

\* The except block, were the is_retryable_error test left out
AfterFailureNoClassify(attempt, e, config) ==
    IF attempt >= config.max_retries THEN "exhausted" ELSE "sleep"

\* The except block, were the last-attempt test off by one
AfterFailureSleepLast(attempt, e, config) ==
    IF attempt > config.max_retries THEN "exhausted"
    ELSE IF ~IsRetryableError(e, config) THEN "permanent"
    ELSE "sleep"

\* The except block: "exhausted" and "permanent" break out of the loop,
\* "sleep" waits and goes on
AfterFailure(attempt, e, config) ==
    IF attempt >= config.max_retries THEN "exhausted"
    ELSE IF ~IsRetryableError(e, config) THEN "permanent"
    ELSE "sleep"

\* The delay, were it computed for the attempt to come
SleepDelaysNext(attempt, config) == CalculateDelaySet(attempt + 1, config)

\* delay = calculate_delay(attempt, config)
SleepDelays(attempt, config) == CalculateDelaySet(attempt, config)

RetryConfigs ==
    [max_retries : 0..MaxRetriesBound, base_delay : {1000}, max_delay : {1500, 60000},
     exponential_base : {4}, jitter : BOOLEAN,
     retryable_exceptions : {DefaultRetryable, {"TimeoutException"}}]
    \cup {DefaultRetryConfig}

\* An iteration whose invocation returns: the executor returns its result
AttemptReturns(outcome) ==
    /\ rPc = "loop"
    /\ Raised(rKind, outcome) = NoExc
    /\ rOutcomes' = Append(rOutcomes, outcome)
    /\ rResult' = [how |-> "return", value |-> outcome.exc]
    /\ rPc' = "returned"
    /\ UNCHANGED <<rKind, rConfig, rAttempt, rSleeps, rLast>>
    /\ UNCHANGED <<rlVars, wkVars, delayVars, taskVars, proxyVars, gpVars,
                 pfVars, mkVars, ctVars, opsVars>>

\* An iteration whose invocation fails and that breaks out of the loop:
\* `raise last_exception`
AttemptBreaks(outcome) ==
    /\ rPc = "loop"
    /\ LET e == Raised(rKind, outcome)
       IN  /\ e # NoExc
           /\ AfterFailure(rAttempt, e, rConfig) \in {"exhausted", "permanent"}
           /\ rLast' = e
           /\ rResult' = [how |-> "raise", value |-> e]
    /\ rOutcomes' = Append(rOutcomes, outcome)
    /\ rPc' = "raised"
    /\ UNCHANGED <<rKind, rConfig, rAttempt, rSleeps>>
    /\ UNCHANGED <<rlVars, wkVars, delayVars, taskVars, proxyVars, gpVars,
                 pfVars, mkVars, ctVars, opsVars>>

\* An iteration whose invocation fails and that sleeps; when the range is used
\* up the loop ends and the code after it raises last_exception
AttemptSleeps(outcome) ==
    /\ rPc = "loop"
    /\ LET e == Raised(rKind, outcome)
       IN  /\ e # NoExc
           /\ AfterFailure(rAttempt, e, rConfig) = "sleep"
           /\ rLast' = e
           /\ IF rAttempt + 1 < rConfig.max_retries + 1
              THEN rPc' = "loop" /\ rResult' = rResult
              ELSE rPc' = "raised" /\ rResult' = [how |-> "raise", value |-> e]
    /\ \E delay \in SleepDelays(rAttempt, rConfig) : rSleeps' = Append(rSleeps, delay)
    /\ rOutcomes' = Append(rOutcomes, outcome)
    /\ rAttempt' = rAttempt + 1
    /\ UNCHANGED <<rKind, rConfig>>
    /\ UNCHANGED <<rlVars, wkVars, delayVars, taskVars, proxyVars, gpVars,
                 pfVars, mkVars, ctVars, opsVars>>

NextRetry ==
    \/ \E o \in OperationOutcomes(rKind) : AttemptReturns(o)
    \/ \E o \in OperationOutcomes(rKind) : AttemptBreaks(o)
    \/ \E o \in OperationOutcomes(rKind) : AttemptSleeps(o)

\* One of the executors entered with some RetryConfig, before the first attempt
InitRetry ==
    /\ now = 0
    /\ zset = [d \in Domains |-> {}]
    /\ expireAt = [d \in Domains |-> NoTTL]
    /\ argLimit = 0
    /\ argWindow = 0
    /\ admitLog = [d \in Domains |-> <<>>]
    /\ lastOp = NoOp
    /\ nCalls = 0
    /\ wpc = [w \in Workers |-> "idle"]
    /\ wdom = [w \in Workers |-> None]
    /\ wtime = [w \in Workers |-> 0]
    /\ wcount = [w \in Workers |-> 0]
    /\ dConfig = None
    /\ dPrev = NoEval
    /\ dCur = NoEval
    /\ rKind \in {"decorator", "async", "get", "post"}
    /\ rConfig \in RetryConfigs
    /\ rPc = IF 0 < rConfig.max_retries + 1 THEN "loop" ELSE "raised"
    /\ rAttempt = 0
    /\ rOutcomes = <<>>
    /\ rSleeps = <<>>
    /\ rLast = NoExc
    /\ rResult = NoResult
    /\ tasks = <<>>
    /\ proxies = <<>>
    /\ bad_proxies = {}
    /\ current_index = 0
    /\ max_failures = 0
    /\ rotation_strategy = None
    /\ pmLast = NoCall
    /\ rrLog = <<>>
    /\ gpPc = [w \in Workers |-> "done"]
    /\ gpAvail = [w \in Workers |-> <<>>]
    /\ gpProxy = [w \in Workers |-> 0]
    /\ gpResult = [w \in Workers |-> NoCall]
    /\ pool_file = NoFile
    /\ hcResults = NoResults
    /\ mkPc = [w \in Workers |-> "done"]
    /\ mkOp = [w \in Workers |-> None]
    /\ mkInfo = [w \in Workers |-> 0]
    /\ mkTmp = [w \in Workers |-> 0]
    /\ mkCalls = <<>>
    /\ revoked = {}
    /\ statusLast = NoStatus
    /\ monStatus = <<>>
    /\ monSeen = {}
    /\ wmWorkers = {}
    /\ wmBroker = None
    /\ wmQueues = <<>>
    /\ wmLast = NoCall
    /\ dlPc = None
    /\ dlAttempt = 0
    /\ dlLog = <<>>
    /\ dlResult = None
    /\ dlMaxRetries = 0
    /\ eRun = <<>>
    /\ eOutcomes = <<>>

SpecRetry == InitRetry /\ [][NextRetry]_vars

(***************************************************************************)
(* Properties of the retry executors.                                      *)
(***************************************************************************)
\* The exception invocation i ended with, NoExc if it returned
ErrorAt(i) == Raised(rKind, rOutcomes[i])

\* Every invocation so far failed with an error classified as retryable
AllRetryableFailures ==
    \A i \in 1..Len(rOutcomes) :
        ErrorAt(i) # NoExc /\ IsRetryableError(ErrorAt(i), rConfig)

\* C6: when an attempt fails with an error is_retryable_error classifies as
\* non-retryable, that error is raised to the caller at once: the operation is
\* not invoked again and no backoff sleep follows the failed attempt.
C6_PermanentErrorRaisedAtOnce ==
    \A i \in 1..Len(rOutcomes) :
        (ErrorAt(i) # NoExc /\ ~IsRetryableError(ErrorAt(i), rConfig))
            => /\ Len(rOutcomes) = i
               /\ rPc = "raised"
               /\ rResult = [how |-> "raise", value |-> ErrorAt(i)]
               /\ Len(rSleeps) = i - 1

\* C6 witness: the second attempt failed with a non-retryable error while
\* retries were left, and the executor has raised
C6_Witness ==
    /\ rPc = "raised"
    /\ Len(rOutcomes) = 2
    /\ rAttempt < rConfig.max_retries
    /\ ErrorAt(2) # NoExc
    /\ ~IsRetryableError(ErrorAt(2), rConfig)

\* C7: under the default RetryConfig an HTTP status error with a 4xx status
\* other than 429 is permanent: is_retryable_error is False for it and the
\* executor stops with the attempt that produced it.
C7_ClientErrorIsPermanent ==
    rConfig = DefaultRetryConfig =>
        \A i \in 1..Len(rOutcomes) :
            LET e == ErrorAt(i)
            IN  (e.cls = "HTTPStatusError" /\ 400 <= e.status /\ e.status < 500
                    /\ e.status # 429)
                  => /\ ~IsRetryableError(e, rConfig)
                     /\ Len(rOutcomes) = i
                     /\ rPc = "raised"

\* C8: while every attempt fails with a retryable error the executor sleeps
\* once after each failed attempt and goes on, until attempt max_retries + 1
\* has failed: then it raises that attempt's error without another sleep, so
\* there are exactly max_retries + 1 invocations and max_retries sleeps.
C8_ExhaustionAfterMaxRetries ==
    AllRetryableFailures =>
        LET n == Len(rOutcomes)
        IN  /\ n <= rConfig.max_retries + 1
            /\ n <= rConfig.max_retries
                  => (rPc = "loop" /\ Len(rSleeps) = n)
            /\ n = rConfig.max_retries + 1
                  => /\ rPc = "raised"
                     /\ Len(rSleeps) = rConfig.max_retries
                     /\ rResult = [how |-> "raise", value |-> ErrorAt(n)]

\* C8 witness: max_retries >= 2, every attempt failed with a retryable error
\* and the executor has raised
C8_Witness ==
    /\ rConfig.max_retries >= 2
    /\ Len(rOutcomes) = rConfig.max_retries + 1
    /\ AllRetryableFailures
    /\ rPc = "raised"

\* C9: an operation that fails k <= max_retries times with retryable errors
\* and then succeeds is invoked again after each failure, and its result is
\* returned after exactly k + 1 invocations and k sleeps whose durations are
\* calculate_delay(0), ..., calculate_delay(k - 1) in that order.
C9_SuccessAfterKFailures ==
    LET n == Len(rOutcomes)
    IN  /\ (AllRetryableFailures /\ n <= rConfig.max_retries) => rPc = "loop"
        /\ (n >= 1 /\ ErrorAt(n) = NoExc)
              => /\ rPc = "returned"
                 /\ rResult = [how |-> "return", value |-> rOutcomes[n].exc]
                 /\ n - 1 <= rConfig.max_retries
                 /\ Len(rSleeps) = n - 1
                 /\ \A i \in 1..(n - 1) :
                       /\ ErrorAt(i) # NoExc
                       /\ IsRetryableError(ErrorAt(i), rConfig)
                       /\ rSleeps[i] \in CalculateDelaySet(i - 1, rConfig)

\* C9 witness: two retryable failures, then success on the third attempt
C9_Witness ==
    /\ rPc = "returned"
    /\ Len(rOutcomes) = 3
    /\ Len(rSleeps) = 2
    /\ ErrorAt(1) # NoExc
    /\ ErrorAt(2) # NoExc
    /\ ErrorAt(3) = NoExc

(***************************************************************************)
(* Part 4.  The Celery tasks download_image_task and browser_search_task.  *)
(*                                                                         *)
(* tasks[id] is a WorkItem: the message in the broker and its entry in the *)
(* result backend.                                                         *)
(*   kind     "download" or "search"                                       *)
(*   valid    the payload has its required fields (url and label, or       *)
(*            query and label)                                             *)
(*   domain   the domain the download is rate-limited under                *)
(*   state    Celery state: PENDING, STARTED, RETRY, SUCCESS, FAILURE,     *)
(*            REVOKED                                                      *)
(*   retries  request.retries of the message                               *)
(*   runs     number of times a worker executed the task body              *)
(*   eta      clock second before which the message is not delivered       *)
(*   result   what the result backend holds                                *)
(*   denials  number of executions the rate limiter denied                 *)
(*   enqueued number of download items the executions of a search sent     *)
(*   found    number of results of the execution a search ended with       *)
(***************************************************************************)

\* Task.max_retries, which neither task overrides
TaskMaxRetries == 3

\* retry_kwargs of the two @app.task decorators
DownloadRetryKwargs == [max_retries |-> 3, countdown |-> 60]
SearchRetryKwargs == [max_retries |-> 2, countdown |-> 30]

\* max_retries of the retry raised on a rate-limit denial
RateLimitMaxRetries == 5

NewTask(kind, valid, domain) ==
    [kind |-> kind, valid |-> valid, domain |-> domain, state |-> "PENDING",
     retries |-> 0, runs |-> 0, eta |-> 0, result |-> None,
     denials |-> 0, enqueued |-> 0, found |-> 0]

\* What an execution of a task body ends in:
\*   [do |-> "retry", countdown]   Retry raised: the message is sent again
\*   [do |-> "fail", result]       an exception leaves the task: FAILURE
\*   [do |-> "done", result]       the body returns: SUCCESS
\* self.retry(exc=exc, countdown=countdown, max_retries=max_retries)
TaskRetry(retries, exc, countdown, max_retries) ==
    IF retries + 1 > max_retries
    THEN [do |-> "fail", countdown |-> 0,
          result |-> IF exc # None THEN exc ELSE "MaxRetriesExceededError"]
    ELSE [do |-> "retry", countdown |-> countdown, result |-> exc]

\* autoretry_for=(Exception,): an exception other than Retry that leaves the
\* body is answered with self.retry(exc=exc, **retry_kwargs)
AutoRetry(retries, exc, kwargs) ==
    TaskRetry(retries, exc, kwargs.countdown, kwargs.max_retries)

\* What the body's own self.retry(...) call ends in: Retry is passed on, any
\* other exception it raises meets autoretry_for
OwnRetry(retries, countdown, max_retries, kwargs) ==
    LET r == TaskRetry(retries, None, countdown, max_retries)
    IN  IF r.do = "retry" THEN r ELSE AutoRetry(retries, r.result, kwargs)

\* The message and backend entry after an execution that ended in `end`
AfterRun(t, end) ==
    CASE end.do = "retry" ->
            [t EXCEPT !.state = "RETRY", !.retries = @ + 1, !.runs = @ + 1,
                      !.eta = now + end.countdown, !.result = end.result]
      [] end.do = "fail" ->
            [t EXCEPT !.state = "FAILURE", !.runs = @ + 1, !.result = end.result]
      [] OTHER ->
            [t EXCEPT !.state = "SUCCESS", !.runs = @ + 1, !.result = end.result]

\* Delivery, were a message sent again by a retry never handed to a worker
DeliverableOnlyPending(id) ==
    /\ id \in 1..Len(tasks)
    /\ tasks[id].state = "PENDING"
    /\ tasks[id].eta <= now

\* A worker may be handed the message
Deliverable(id) ==
    /\ id \in 1..Len(tasks)
    /\ tasks[id].state \in {"PENDING", "RETRY"}
    /\ tasks[id].eta <= now

\* enqueue_download(task_data)
EnqueueDownload(valid, domain) ==
    /\ Len(tasks) < MaxItems
    /\ tasks' = Append(tasks, NewTask("download", valid, domain))
    /\ UNCHANGED <<rlVars, wkVars, delayVars, retryVars, proxyVars, gpVars,
                 pfVars, mkVars, ctVars, opsVars>>

\* enqueue_browser_search(task_data)
EnqueueSearch(valid) ==
    /\ Len(tasks) < MaxItems
    /\ tasks' = Append(tasks, NewTask("search", valid, None))
    /\ UNCHANGED <<rlVars, wkVars, delayVars, retryVars, proxyVars, gpVars,
                 pfVars, mkVars, ctVars, opsVars>>

\* download_image_task with a payload that lacks url or label: ValueError
RunDownloadInvalid(id) ==
    /\ Deliverable(id)
    /\ tasks[id].kind = "download"
    /\ ~tasks[id].valid
    /\ tasks' = [tasks EXCEPT ![id] =
          AfterRun(@, AutoRetry(@.retries, "ValueError", DownloadRetryKwargs))]
    /\ UNCHANGED <<rlVars, wkVars, delayVars, retryVars, proxyVars, gpVars,
                 pfVars, mkVars, ctVars, opsVars>>

\* The end of an execution of download_image_task the limiter denied:
\* raise self.retry(countdown=wait_time, max_retries=5)
DeniedEnd(t, wait_time) ==
    OwnRetry(t.retries, wait_time, RateLimitMaxRetries, DownloadRetryKwargs)

\* The end of an execution of download_image_task the limiter admitted:
\* download_and_store returns its result, or raises (lines 167-200)
AdmittedEnd(t, outcome, jitter) ==
    IF outcome # "raise"
    THEN [do |-> "done", countdown |-> 0, result |-> outcome]
    ELSE IF t.retries < TaskMaxRetries
    THEN OwnRetry(t.retries, Pow(2, t.retries) * 60 + jitter, TaskMaxRetries,
                  DownloadRetryKwargs)
    ELSE [do |-> "done", countdown |-> 0, result |-> "failed"]

\* download_image_task denied by the rate limiter
RunDownloadDenied(id) ==
    /\ Deliverable(id)
    /\ tasks[id].kind = "download"
    /\ tasks[id].valid
    /\ ~Admits(tasks[id].domain, 0, 0)
    /\ IsAllowed(tasks[id].domain, 0, 0)
    /\ LET wait_time == WaitTime(zset'[tasks[id].domain], now, 0, 0)
       IN  /\ lastOp' = [op |-> "get_wait_time", domain |-> tasks[id].domain,
                         result |-> wait_time]
           /\ tasks' = [tasks EXCEPT ![id] =
                 [AfterRun(@, DeniedEnd(@, wait_time)) EXCEPT !.denials = @ + 1]]
    /\ UNCHANGED <<now, argLimit, argWindow, nCalls>>
    /\ UNCHANGED <<wkVars, delayVars, retryVars, proxyVars, gpVars, pfVars, mkVars, ctVars, opsVars>>

\* download_image_task admitted; download_and_store returns a result
\* ("downloaded", "duplicate" or "failed") or raises
RunDownloadAdmitted(id, outcome, jitter) ==
    /\ Deliverable(id)
    /\ tasks[id].kind = "download"
    /\ tasks[id].valid
    /\ Admits(tasks[id].domain, 0, 0)
    /\ IsAllowed(tasks[id].domain, 0, 0)
    /\ lastOp' = [op |-> "is_allowed", domain |-> tasks[id].domain, result |-> TRUE]
    /\ tasks' = [tasks EXCEPT ![id] = AfterRun(@, AdmittedEnd(@, outcome, jitter))]
    /\ UNCHANGED <<now, argLimit, argWindow, nCalls>>
    /\ UNCHANGED <<wkVars, delayVars, retryVars, proxyVars, gpVars, pfVars, mkVars, ctVars, opsVars>>

\* browser_search_task with a payload that lacks query or label: ValueError
RunSearchInvalid(id) ==
    /\ Deliverable(id)
    /\ tasks[id].kind = "search"
    /\ ~tasks[id].valid
    /\ tasks' = [tasks EXCEPT ![id] =
          AfterRun(@, AutoRetry(@.retries, "ValueError", SearchRetryKwargs))]
    /\ UNCHANGED <<rlVars, wkVars, delayVars, retryVars, proxyVars, gpVars,
                 pfVars, mkVars, ctVars, opsVars>>

\* The download items a search enqueues, one per result
RECURSIVE FanOut(_)
FanOut(domains) ==
    IF domains = <<>> THEN <<>>
    ELSE <<NewTask("download", TRUE, Head(domains))>> \o FanOut(Tail(domains))

\* browser_search_task whose fetch_images_sync returns results, one URL per
\* entry of `found` (none: "no_results"), and whose loop sends a download
\* item for each; the broker holds at most `cap` items
RunSearchFinds(id, found, cap) ==
    /\ Deliverable(id)
    /\ tasks[id].kind = "search"
    /\ tasks[id].valid
    /\ Len(tasks) + Len(found) <= cap
    /\ tasks' = [tasks EXCEPT ![id] =
                    [AfterRun(@, [do |-> "done", countdown |-> 0,
                                  result |-> IF found = <<>> THEN "no_results"
                                             ELSE "success"])
                       EXCEPT !.enqueued = @ + Len(found), !.found = Len(found)]]
                \o FanOut(found)
    /\ UNCHANGED <<rlVars, wkVars, delayVars, retryVars, proxyVars, gpVars,
                 pfVars, mkVars, ctVars, opsVars>>

\* The end of an execution of browser_search_task that met an exception
\* inside its try block: lines 268-281
SearchExcept(t, jitter) ==
    IF t.retries < TaskMaxRetries
    THEN OwnRetry(t.retries, Pow(2, t.retries) * 30 + jitter, TaskMaxRetries,
                  SearchRetryKwargs)
    ELSE [do |-> "done", countdown |-> 0, result |-> "failed"]

\* browser_search_task whose fetch_images_sync returns the results `found`
\* and whose loop sends the first k download items before
\* download_image_task.delay raises for the next
RunSearchFailsPartway(id, found, k, jitter, cap) ==
    /\ Deliverable(id)
    /\ tasks[id].kind = "search"
    /\ tasks[id].valid
    /\ k \in 0..(Len(found) - 1)
    /\ Len(tasks) + k <= cap
    /\ tasks' = [tasks EXCEPT ![id] =
                    [AfterRun(@, SearchExcept(@, jitter))
                       EXCEPT !.enqueued = @ + k]]
                \o FanOut(SubSeq(found, 1, k))
    /\ UNCHANGED <<rlVars, wkVars, delayVars, retryVars, proxyVars, gpVars,
                 pfVars, mkVars, ctVars, opsVars>>

\* browser_search_task whose fetch_images_sync raises
RunSearchRaises(id, jitter) ==
    /\ Deliverable(id)
    /\ tasks[id].kind = "search"
    /\ tasks[id].valid
    /\ tasks' = [tasks EXCEPT ![id] = AfterRun(@, SearchExcept(@, jitter))]
    /\ UNCHANGED <<rlVars, wkVars, delayVars, retryVars, proxyVars, gpVars,
                 pfVars, mkVars, ctVars, opsVars>>

\* Workers take a message as soon as it may be delivered; when none may be,
\* time passes until the earliest countdown of a waiting message is over
Elapse(id) ==
    /\ \A other \in 1..Len(tasks) : ~Deliverable(other)
    /\ id \in 1..Len(tasks)
    /\ tasks[id].state \in {"PENDING", "RETRY"}
    /\ tasks[id].eta > now
    /\ \A other \in 1..Len(tasks) :
          tasks[other].state \in {"PENDING", "RETRY"} => tasks[id].eta <= tasks[other].eta
    /\ ClockTo(tasks[id].eta)
    /\ UNCHANGED <<argLimit, argWindow, admitLog, nCalls>>
    /\ UNCHANGED <<wkVars, delayVars, retryVars, taskVars, proxyVars, gpVars,
                 pfVars, mkVars, ctVars, opsVars>>

TaskIds == 1..MaxItems

\* random.uniform(a, b) of a retry countdown, sampled at its upper end
RandomUniform(a, b) == {b}

\* The domains of up to MaxResults search results
FoundLists == UNION {[1..n -> Domains] : n \in 0..MaxResults}

NextTask ==
    \/ \E valid \in BOOLEAN, d \in Domains : EnqueueDownload(valid, d)
    \/ \E valid \in BOOLEAN : EnqueueSearch(valid)
    \/ \E id \in TaskIds : RunDownloadInvalid(id)
    \/ \E id \in TaskIds : RunDownloadDenied(id)
    \/ \E id \in TaskIds, outcome \in {"downloaded", "duplicate", "failed", "raise"},
          jitter \in RandomUniform(0, 30) : RunDownloadAdmitted(id, outcome, jitter)
    \/ \E id \in TaskIds : RunSearchInvalid(id)
    \/ \E id \in TaskIds, found \in FoundLists : RunSearchFinds(id, found, MaxItems)
    \/ \E id \in TaskIds, found \in FoundLists, k \in 0..MaxResults,
          jitter \in RandomUniform(0, 10) :
            RunSearchFailsPartway(id, found, k, jitter, MaxItems)
    \/ \E id \in TaskIds, jitter \in RandomUniform(0, 10) : RunSearchRaises(id, jitter)
    \/ \E id \in TaskIds : Elapse(id)

\* No task enqueued, the limiter's store empty; the tasks call the limiter
\* with its defaults
InitTask ==
    /\ now = 0
    /\ zset = [d \in Domains |-> {}]
    /\ expireAt = [d \in Domains |-> NoTTL]
    /\ argLimit = 0
    /\ argWindow = 0
    /\ admitLog = [d \in Domains |-> <<>>]
    /\ lastOp = NoOp
    /\ nCalls = 0
    /\ wpc = [w \in Workers |-> "idle"]
    /\ wdom = [w \in Workers |-> None]
    /\ wtime = [w \in Workers |-> 0]
    /\ wcount = [w \in Workers |-> 0]
    /\ dConfig = None
    /\ dPrev = NoEval
    /\ dCur = NoEval
    /\ rKind = None
    /\ rConfig = None
    /\ rPc = None
    /\ rAttempt = 0
    /\ rOutcomes = <<>>
    /\ rSleeps = <<>>
    /\ rLast = NoExc
    /\ rResult = NoResult
    /\ tasks = <<>>
    /\ proxies = <<>>
    /\ bad_proxies = {}
    /\ current_index = 0
    /\ max_failures = 0
    /\ rotation_strategy = None
    /\ pmLast = NoCall
    /\ rrLog = <<>>
    /\ gpPc = [w \in Workers |-> "done"]
    /\ gpAvail = [w \in Workers |-> <<>>]
    /\ gpProxy = [w \in Workers |-> 0]
    /\ gpResult = [w \in Workers |-> NoCall]
    /\ pool_file = NoFile
    /\ hcResults = NoResults
    /\ mkPc = [w \in Workers |-> "done"]
    /\ mkOp = [w \in Workers |-> None]
    /\ mkInfo = [w \in Workers |-> 0]
    /\ mkTmp = [w \in Workers |-> 0]
    /\ mkCalls = <<>>
    /\ revoked = {}
    /\ statusLast = NoStatus
    /\ monStatus = <<>>
    /\ monSeen = {}
    /\ wmWorkers = {}
    /\ wmBroker = None
    /\ wmQueues = <<>>
    /\ wmLast = NoCall
    /\ dlPc = None
    /\ dlAttempt = 0
    /\ dlLog = <<>>
    /\ dlResult = None
    /\ dlMaxRetries = 0
    /\ eRun = <<>>
    /\ eOutcomes = <<>>

SpecTask == InitTask /\ [][NextTask]_vars

\* C10: a download or search WorkItem whose payload is malformed (a Permanent
\* error) is executed exactly once and is then in the terminal FAILURE state;
\* it is never re-scheduled.
C10_PermanentErrorFailsOnce ==
    \A id \in 1..Len(tasks) :
        (~tasks[id].valid /\ tasks[id].runs >= 1)
            => (tasks[id].state = "FAILURE" /\ tasks[id].runs = 1)

(***************************************************************************)
(* Part 5.  ProxyManager                                                   *)
(*                                                                         *)
(* A ProxyInfo object is a record [host, success_count, failure_count,     *)
(* is_active]; every proxy of the model listens on the same port, so a     *)
(* host stands for host:port.  A proxy dictionary is the URL text           *)
(* f"{protocol}://{host}:{port}", written here as its host part.  The      *)
(* time stamps last_used, last_checked and response_time are left out.     *)
(***************************************************************************)

\* The rotation strategies get_proxy distinguishes; "first" stands for any
\* other configured value (the else branch)
Strategies == {"round_robin", "random", "weighted", "first"}

\* Values of the max_failures setting
MaxFailuresChoices == {1, 2}

\* ProxyInfo(host=..., port=...): the field defaults of the dataclass
ProxyInfo(host) ==
    [host |-> host, success_count |-> 0, failure_count |-> 0, is_active |-> TRUE]

\* @dataclass without eq=False or frozen=True: the class defines __eq__, so
\* its __hash__ is None and a ProxyInfo cannot be hashed
Hashable == FALSE

\* x in S, S.add(x), S.discard(x) on a set hash x first
HashRaises == ~Hashable

\* str.lower() as urlparse(...).hostname applies it
Lower(host) ==
    CASE host = "A.example.com" -> "a.example.com"
      [] host = "B.example.com" -> "b.example.com"
      [] OTHER -> host

\* _proxy_to_dict: the URL under the keys 'http' and 'https'.  http is its
\* host part; scheme and userinfo are the protocol and the credentials the URL
\* carries besides
ProxyToDict(p) ==
    [http |-> p.host,
     scheme |-> IF "protocol" \in DOMAIN p THEN p.protocol ELSE "http",
     userinfo |-> IF "username" \in DOMAIN p THEN p.username ELSE None]

\* The dictionaries callers pass to mark_bad and mark_success: a URL for a
\* host in either spelling, or an empty dictionary
ProxyDicts == {[http |-> h] : h \in Hosts \cup {"B.example.com", ""}}

RECURSIVE FirstMatch(_, _, _)
\* for proxy_info in self.proxies: if proxy_info.host == host ...: return it
FirstMatch(seq, host, i) ==
    IF i > Len(seq) THEN 0
    ELSE IF seq[i].host = host THEN i
    ELSE FirstMatch(seq, host, i + 1)

\* _find_proxy_by_dict: position of the matching record, 0 for None
FindProxyByDict(proxy_dict) ==
    IF proxy_dict.http = "" THEN 0
    ELSE FirstMatch(proxies, Lower(proxy_dict.http), 1)

RECURSIVE CountsTotal(_)
\* Sum of all success and failure counters of a list of records
CountsTotal(seq) ==
    IF seq = <<>> THEN 0
    ELSE Head(seq).success_count + Head(seq).failure_count + CountsTotal(Tail(seq))

\* The filter, were the is_active flag not looked at
IsAvailableIgnoringFlag(i) == i \notin bad_proxies

\* p.is_active and p not in self.bad_proxies
IsAvailable(i) == proxies[i].is_active /\ i \notin bad_proxies

\* The list comprehension hashes p for every active p it meets
FilterRaises == HashRaises /\ \E i \in 1..Len(proxies) : proxies[i].is_active

RECURSIVE Filtered(_)
\* Positions i..Len(proxies) kept by the comprehension, in list order
Filtered(i) ==
    IF i > Len(proxies) THEN <<>>
    ELSE IF IsAvailable(i) THEN <<i>> \o Filtered(i + 1)
    ELSE Filtered(i + 1)

\* available_proxies
AvailableProxies == Filtered(1)

\* weight of a proxy as the fraction <<numerator, denominator>>
Weight(p) ==
    LET total_requests == p.success_count + p.failure_count
    IN IF total_requests = 0 THEN <<1, 1>> ELSE <<p.success_count, total_requests>>

\* weight u is smaller than weight v
WeightLess(u, v) == u[1] * v[2] < v[1] * u[2]

\* _get_round_robin_proxy: [proxy, next value of current_index]
GetRoundRobinProxy(available, index) ==
    [proxy |-> available[(index % Len(available)) + 1],
     index |-> (index + 1) % Len(available)]

\* _get_random_proxy: random.choice
GetRandomProxy(available) == {available[k] : k \in 1..Len(available)}

\* _get_weighted_proxy: random.choices draws among the positive weights and
\* raises ValueError when the weights add up to zero
GetWeightedProxy(seq, available) ==
    {available[k] : k \in {j \in 1..Len(available) : Weight(seq[available[j]])[1] > 0}}

\* What a get_proxy call can do in the current state: [res, idx, index],
\* index being the value it leaves in current_index
GetProxyOutcomes ==
    IF proxies = <<>> THEN {[res |-> "None", idx |-> 0, index |-> current_index]}
    ELSE IF FilterRaises
        THEN {[res |-> "TypeError", idx |-> 0, index |-> current_index]}
    ELSE IF AvailableProxies = <<>>
        THEN {[res |-> "None", idx |-> 0, index |-> current_index]}
    ELSE LET available == AvailableProxies
         IN CASE rotation_strategy = "round_robin" ->
                    LET r == GetRoundRobinProxy(available, current_index)
                    IN {[res |-> "proxy", idx |-> r.proxy, index |-> r.index]}
              [] rotation_strategy = "random" ->
                    {[res |-> "proxy", idx |-> i, index |-> current_index] :
                        i \in GetRandomProxy(available)}
              [] rotation_strategy = "weighted" ->
                    IF GetWeightedProxy(proxies, available) = {}
                    THEN {[res |-> "ValueError", idx |-> 0, index |-> current_index]}
                    ELSE {[res |-> "proxy", idx |-> i, index |-> current_index] :
                            i \in GetWeightedProxy(proxies, available)}
              [] OTHER ->
                    {[res |-> "proxy", idx |-> available[1], index |-> current_index]}

\* mark_bad, were a deactivated proxy left as it is
WithFailureWhileActive(r, threshold) ==
    IF ~r.is_active THEN r
    ELSE [r EXCEPT !.failure_count = @ + 1,
                   !.is_active = IF r.failure_count + 1 >= threshold THEN FALSE ELSE @]

\* The record of a proxy after one more failure: mark_bad, lines 181-185
WithFailure(r, threshold) ==
    [r EXCEPT !.failure_count = @ + 1,
              !.is_active = IF r.failure_count + 1 >= threshold THEN FALSE ELSE @]

\* mark_success, were a success to reactivate the proxy
WithSuccessReactivating(r) == [r EXCEPT !.success_count = @ + 1, !.is_active = TRUE]

\* The record of a proxy after one more success: mark_success, line 203
WithSuccess(r) == [r EXCEPT !.success_count = @ + 1]

\* The get_proxy results made in a row, the newest MaxProxies of them
Logged(log, entry) ==
    IF Len(log) < MaxProxies THEN Append(log, entry) ELSE Append(Tail(log), entry)

\* Positions of the members of a set after self.proxies.pop(i - 1)
AfterPop(set, i) == {IF j > i THEN j - 1 ELSE j : j \in set \ {i}}

\* The list without its i-th element
Pop(seq, i) == SubSeq(seq, 1, i - 1) \o SubSeq(seq, i + 1, Len(seq))

\* add_proxy(host, port)
AddProxy(host) ==
    /\ Len(proxies) < MaxProxies
    /\ proxies' = Append(proxies, ProxyInfo(host))
    /\ pmLast' = [op |-> "add_proxy", idx |-> Len(proxies) + 1, res |-> "None"]
    /\ rrLog' = <<>>
    /\ UNCHANGED <<bad_proxies, current_index, max_failures, rotation_strategy>>
    /\ hcResults' = NoResults
    /\ UNCHANGED pool_file
    /\ UNCHANGED <<rlVars, wkVars, delayVars, retryVars, taskVars, gpVars, mkVars, ctVars, opsVars>>

\* get_proxy()
GetProxy ==
    /\ \E o \in GetProxyOutcomes :
        /\ current_index' = o.index
        /\ pmLast' = [op |-> "get_proxy", idx |-> o.idx, res |-> o.res]
        /\ rrLog' = IF rotation_strategy = "round_robin"
                    THEN Logged(rrLog, [res |-> o.res, idx |-> o.idx])
                    ELSE rrLog
    /\ UNCHANGED <<proxies, bad_proxies, max_failures, rotation_strategy>>
    /\ hcResults' = NoResults
    /\ UNCHANGED pool_file
    /\ UNCHANGED <<rlVars, wkVars, delayVars, retryVars, taskVars, gpVars, mkVars, ctVars, opsVars>>

\* mark_bad(proxy): the counter and the flag are written before
\* self.bad_proxies.add hashes the record
MarkBad(proxy_dict) ==
    /\ CountsTotal(proxies) < MaxMarks
    /\ LET i == FindProxyByDict(proxy_dict)
       IN IF i = 0
          THEN /\ pmLast' = [op |-> "mark_bad", idx |-> 0, res |-> "None"]
               /\ UNCHANGED <<proxies, bad_proxies>>
          ELSE LET r == WithFailure(proxies[i], max_failures)
               IN /\ proxies' = [proxies EXCEPT ![i] = r]
                  /\ IF r.failure_count >= max_failures
                     THEN IF HashRaises
                          THEN /\ bad_proxies' = bad_proxies
                               /\ pmLast' = [op |-> "mark_bad", idx |-> i,
                                             res |-> "TypeError"]
                          ELSE /\ bad_proxies' = bad_proxies \cup {i}
                               /\ pmLast' = [op |-> "mark_bad", idx |-> i,
                                             res |-> "None"]
                     ELSE /\ bad_proxies' = bad_proxies
                          /\ pmLast' = [op |-> "mark_bad", idx |-> i, res |-> "None"]
    /\ rrLog' = <<>>
    /\ UNCHANGED <<current_index, max_failures, rotation_strategy>>
    /\ hcResults' = NoResults
    /\ UNCHANGED pool_file
    /\ UNCHANGED <<rlVars, wkVars, delayVars, retryVars, taskVars, gpVars, mkVars, ctVars, opsVars>>

\* mark_success(proxy)
MarkSuccess(proxy_dict) ==
    /\ CountsTotal(proxies) < MaxMarks
    /\ LET i == FindProxyByDict(proxy_dict)
       IN /\ proxies' = IF i = 0 THEN proxies
                        ELSE [proxies EXCEPT ![i] = WithSuccess(proxies[i])]
          /\ pmLast' = [op |-> "mark_success", idx |-> i, res |-> "None"]
    /\ rrLog' = <<>>
    /\ UNCHANGED <<bad_proxies, current_index, max_failures, rotation_strategy>>
    /\ hcResults' = NoResults
    /\ UNCHANGED pool_file
    /\ UNCHANGED <<rlVars, wkVars, delayVars, retryVars, taskVars, gpVars, mkVars, ctVars, opsVars>>

\* The probe, were a passing probe to leave the flag as it is
ProbedOnlyDeactivating(r, passes) == [r EXCEPT !.is_active = @ /\ passes]

\* The record of a proxy after its probe: lines 254 and 263
Probed(r, passes) == [r EXCEPT !.is_active = passes]

\* health_check_proxy(proxy) for a proxy of the pool; passes tells whether
\* the probe got through within its retries
HealthCheckProxy(i, passes) ==
    /\ i \in 1..Len(proxies)
    /\ proxies' = [proxies EXCEPT ![i] = Probed(proxies[i], passes)]
    /\ pmLast' = [op |-> "health_check_proxy", idx |-> i,
                  res |-> IF passes THEN "True" ELSE "False"]
    /\ rrLog' = <<>>
    /\ UNCHANGED <<bad_proxies, current_index, max_failures, rotation_strategy>>
    /\ hcResults' = NoResults
    /\ UNCHANGED pool_file
    /\ UNCHANGED <<rlVars, wkVars, delayVars, retryVars, taskVars, gpVars, mkVars, ctVars, opsVars>>

RECURSIVE HealthLoop(_, _, _)
\* for proxy in self.proxies, from the i-th proxy on: the probe's answer is
\* counted as healthy or unhealthy, then checked is incremented; probes
\* records the answers in the order the probes were made
HealthLoop(i, passes, results) ==
    IF i > Len(proxies) THEN results
    ELSE HealthLoop(i + 1, passes,
            [results EXCEPT !.healthy = IF passes[i] THEN @ + 1 ELSE @,
                            !.unhealthy = IF passes[i] THEN @ ELSE @ + 1,
                            !.checked = @ + 1,
                            !.probes = Append(@, passes[i])])

\* health_check_all(): one probe per proxy, in list order; passes[i] is the
\* outcome of the probe of the i-th proxy
HealthCheckAll(passes) ==
    /\ proxies' = [i \in 1..Len(proxies) |-> Probed(proxies[i], passes[i])]
    /\ hcResults' = HealthLoop(1, passes,
                        [total |-> Len(proxies), healthy |-> 0, unhealthy |-> 0,
                         checked |-> 0, probes |-> <<>>])
    /\ pmLast' = [op |-> "health_check_all", idx |-> 0, res |-> "results"]
    /\ rrLog' = <<>>
    /\ UNCHANGED <<bad_proxies, current_index, max_failures, rotation_strategy>>
    /\ UNCHANGED pool_file
    /\ UNCHANGED <<rlVars, wkVars, delayVars, retryVars, taskVars, gpVars, mkVars, ctVars, opsVars>>

\* reset_bad_proxies(): only the members of self.bad_proxies are touched
ResetBadProxies ==
    /\ proxies' = [i \in 1..Len(proxies) |->
                      IF i \in bad_proxies
                      THEN [proxies[i] EXCEPT !.is_active = TRUE, !.failure_count = 0]
                      ELSE proxies[i]]
    /\ bad_proxies' = {}
    /\ pmLast' = [op |-> "reset_bad_proxies", idx |-> 0, res |-> "None"]
    /\ rrLog' = <<>>
    /\ UNCHANGED <<current_index, max_failures, rotation_strategy>>
    /\ hcResults' = NoResults
    /\ UNCHANGED pool_file
    /\ UNCHANGED <<rlVars, wkVars, delayVars, retryVars, taskVars, gpVars, mkVars, ctVars, opsVars>>

\* remove_proxy(host, port): the record is popped before
\* self.bad_proxies.discard hashes it
RemoveProxy(host) ==
    /\ LET i == FirstMatch(proxies, host, 1)
       IN IF i = 0
          THEN /\ pmLast' = [op |-> "remove_proxy", idx |-> 0, res |-> "False"]
               /\ UNCHANGED <<proxies, bad_proxies>>
          ELSE /\ proxies' = Pop(proxies, i)
               /\ IF HashRaises
                  THEN /\ bad_proxies' = {IF j > i THEN j - 1 ELSE j : j \in bad_proxies}
                       /\ pmLast' = [op |-> "remove_proxy", idx |-> i,
                                     res |-> "TypeError"]
                  ELSE /\ bad_proxies' = AfterPop(bad_proxies, i)
                       /\ pmLast' = [op |-> "remove_proxy", idx |-> i, res |-> "True"]
    /\ rrLog' = <<>>
    /\ UNCHANGED <<current_index, max_failures, rotation_strategy>>
    /\ hcResults' = NoResults
    /\ UNCHANGED pool_file
    /\ UNCHANGED <<rlVars, wkVars, delayVars, retryVars, taskVars, gpVars, mkVars, ctVars, opsVars>>

\* Records a pool file holds
FileRecords ==
    [host : Hosts, success_count : {0}, failure_count : {0, 2}, is_active : BOOLEAN]

\* Numbers of records a pool file holds
FileLengths == {0, 1, 2}

\* Contents of the file load_proxy_pool is given
FileContents ==
    {f \in UNION {[1..n -> FileRecords] : n \in FileLengths} :
        Len(f) <= MaxProxies /\ CountsTotal(f) <= MaxMarks} \cup {NoFile}

RECURSIVE FirstInactive(_, _)
\* Position of the first record of the file with is_active False, 0 if none
FirstInactive(f, i) ==
    IF i > Len(f) THEN 0
    ELSE IF ~f[i].is_active THEN i
    ELSE FirstInactive(f, i + 1)

\* The records load_proxy_pool appends before it stops: the whole file, or
\* the file up to the first record whose bad_proxies.add raises
Loaded(f) ==
    IF HashRaises /\ FirstInactive(f, 1) # 0
    THEN SubSeq(f, 1, FirstInactive(f, 1))
    ELSE f

\* load_proxy_pool(file_path); every exception is caught and logged
LoadProxyPool(f) ==
    /\ IF f = NoFile
       THEN UNCHANGED <<proxies, bad_proxies>>
       ELSE /\ proxies' = Loaded(f)
            /\ bad_proxies' = IF HashRaises THEN {}
                              ELSE {i \in 1..Len(f) : ~f[i].is_active}
    /\ pmLast' = [op |-> "load_proxy_pool", idx |-> 0, res |-> "None"]
    /\ rrLog' = <<>>
    /\ UNCHANGED <<current_index, max_failures, rotation_strategy>>
    /\ hcResults' = NoResults
    /\ UNCHANGED pool_file
    /\ UNCHANGED <<rlVars, wkVars, delayVars, retryVars, taskVars, gpVars, mkVars, ctVars, opsVars>>

NextProxy ==
    \/ \E host \in Hosts : AddProxy(host)
    \/ GetProxy
    \/ \E d \in ProxyDicts : MarkBad(d)
    \/ \E d \in ProxyDicts : MarkSuccess(d)
    \/ \E i \in 1..MaxProxies, passes \in BOOLEAN : HealthCheckProxy(i, passes)
    \/ \E passes \in [1..MaxProxies -> BOOLEAN] : HealthCheckAll(passes)
    \/ ResetBadProxies
    \/ \E host \in Hosts : RemoveProxy(host)
    \/ \E f \in FileContents : LoadProxyPool(f)

\* Values of config['proxies']: the hosts of the configured proxies, in order
ConfigProxies == UNION {[1..n -> Hosts] : n \in 0..MaxProxies}

\* ProxyManager(config): the proxies of the configuration, all fresh; the
\* other parts stay dormant
InitProxy ==
    /\ now = 0
    /\ zset = [d \in Domains |-> {}]
    /\ expireAt = [d \in Domains |-> NoTTL]
    /\ argLimit = 0
    /\ argWindow = 0
    /\ admitLog = [d \in Domains |-> <<>>]
    /\ lastOp = NoOp
    /\ nCalls = 0
    /\ wpc = [w \in Workers |-> "idle"]
    /\ wdom = [w \in Workers |-> None]
    /\ wtime = [w \in Workers |-> 0]
    /\ wcount = [w \in Workers |-> 0]
    /\ dConfig = None
    /\ dPrev = NoEval
    /\ dCur = NoEval
    /\ rKind = None
    /\ rConfig = None
    /\ rPc = None
    /\ rAttempt = 0
    /\ rOutcomes = <<>>
    /\ rSleeps = <<>>
    /\ rLast = NoExc
    /\ rResult = NoResult
    /\ tasks = <<>>
    /\ proxies \in {[i \in 1..Len(hs) |-> ProxyInfo(hs[i])] : hs \in ConfigProxies}
    /\ bad_proxies = {}
    /\ current_index = 0
    /\ max_failures \in MaxFailuresChoices
    /\ rotation_strategy \in Strategies
    /\ pmLast = NoCall
    /\ rrLog = <<>>
    /\ gpPc = [w \in Workers |-> "done"]
    /\ gpAvail = [w \in Workers |-> <<>>]
    /\ gpProxy = [w \in Workers |-> 0]
    /\ gpResult = [w \in Workers |-> NoCall]
    /\ pool_file = NoFile
    /\ hcResults = NoResults
    /\ mkPc = [w \in Workers |-> "done"]
    /\ mkOp = [w \in Workers |-> None]
    /\ mkInfo = [w \in Workers |-> 0]
    /\ mkTmp = [w \in Workers |-> 0]
    /\ mkCalls = <<>>
    /\ revoked = {}
    /\ statusLast = NoStatus
    /\ monStatus = <<>>
    /\ monSeen = {}
    /\ wmWorkers = {}
    /\ wmBroker = None
    /\ wmQueues = <<>>
    /\ wmLast = NoCall
    /\ dlPc = None
    /\ dlAttempt = 0
    /\ dlLog = <<>>
    /\ dlResult = None
    /\ dlMaxRetries = 0
    /\ eRun = <<>>
    /\ eOutcomes = <<>>

SpecProxy == InitProxy /\ [][NextProxy]_vars

(***************************************************************************)
(* Claims on the ProxyManager.                                             *)
(***************************************************************************)

\* Positions of the proxies that are active and not in the bad set
Qualifying == {i \in 1..Len(proxies) : IsAvailable(i)}

\* get_proxy reaches the selection with the i-th proxy in available_proxies
Eligible(i) ==
    /\ ~FilterRaises
    /\ \E k \in 1..Len(AvailableProxies) : AvailableProxies[k] = i

\* C11: in every reachable state of the pool, a proxy record whose
\* failure_count has reached max_failures is inactive and is a member of the
\* bad set.
C11_MaxFailuresImpliesDeactivated ==
    \A i \in 1..Len(proxies) :
        proxies[i].failure_count >= max_failures
            => (~proxies[i].is_active /\ i \in bad_proxies)

C13_HealthyProxyEligibleAgain ==
    (/\ pmLast.op = "health_check_proxy"
     /\ pmLast.res = "True"
     /\ proxies[pmLast.idx].failure_count >= max_failures)
        => Eligible(pmLast.idx)

\* C14: whenever at least one proxy is active and not in the bad set,
\* get_proxy returns a proxy: it neither returns None nor raises, under
\* every strategy and whatever the counters are.
C14_ReturnsProxyWhenOneQualifies ==
    (pmLast.op = "get_proxy" /\ Qualifying # {}) => pmLast.res = "proxy"

\* C15: under round_robin with N qualifying proxies and no change to the
\* pool in between, N get_proxy calls in a row return each of the N proxies
\* exactly once.
C15_RoundRobinCoversAll ==
    (/\ rotation_strategy = "round_robin"
     /\ Qualifying # {}
     /\ Len(rrLog) = Cardinality(Qualifying))
        => /\ \A k \in 1..Len(rrLog) : rrLog[k].res = "proxy"
           /\ {rrLog[k].idx : k \in 1..Len(rrLog)} = Qualifying

C17_MarkSuccessOnlyCounts ==
    [][/\ (pmLast'.op = "mark_success" /\ pmLast'.idx # 0) =>
            /\ proxies' = [proxies EXCEPT ![pmLast'.idx].success_count = @ + 1]
            /\ UNCHANGED <<bad_proxies, current_index, max_failures,
                           rotation_strategy>>
       /\ (pmLast'.op \in {"mark_success", "mark_bad"} /\ pmLast'.idx = 0) =>
            UNCHANGED <<proxies, bad_proxies, current_index, max_failures,
                        rotation_strategy>>]_vars

\* C17 witness: mark_success has been called on a deactivated proxy
C17_Witness ==
    /\ pmLast.op = "mark_success"
    /\ pmLast.idx # 0
    /\ ~proxies[pmLast.idx].is_active
    /\ proxies[pmLast.idx].success_count > 0

\* C19: reset_bad_proxies leaves the bad set empty and every proxy that was
\* deactivated, for whatever reason, active with failure_count 0.
C19_ResetReactivatesAll ==
    [][pmLast'.op = "reset_bad_proxies" =>
        /\ bad_proxies' = {}
        /\ \A i \in 1..Len(proxies) :
            ~proxies[i].is_active
                => (proxies'[i].is_active /\ proxies'[i].failure_count = 0)]_vars

(***************************************************************************)
(* _get_weighted_proxy on its own: three active proxies with drawn         *)
(* counters.                                                               *)
(***************************************************************************)

\* Values of the success and failure counters of the proxies drawn from
CountSamples == {0, 1, 9}

\* Hosts of the three proxies A, B and C
WeightedHosts == <<"a.example.com", "b.example.com", "c.example.com">>

\* self._get_weighted_proxy(available_proxies), every proxy being available
CallGetWeightedProxy ==
    /\ LET available == [i \in 1..Len(proxies) |-> i]
           chosen == GetWeightedProxy(proxies, available)
       IN IF chosen = {}
          THEN pmLast' = [op |-> "_get_weighted_proxy", idx |-> 0, res |-> "ValueError"]
          ELSE \E i \in chosen :
                  pmLast' = [op |-> "_get_weighted_proxy", idx |-> i, res |-> "proxy"]
    /\ UNCHANGED <<proxies, bad_proxies, current_index, max_failures,
                   rotation_strategy, rrLog>>
    /\ UNCHANGED <<rlVars, wkVars, delayVars, retryVars, taskVars, gpVars,
                 pfVars, mkVars, ctVars, opsVars>>

NextWeighted == CallGetWeightedProxy

\* Three active proxies with any counters; the other parts stay dormant
InitWeighted ==
    /\ now = 0
    /\ zset = [d \in Domains |-> {}]
    /\ expireAt = [d \in Domains |-> NoTTL]
    /\ argLimit = 0
    /\ argWindow = 0
    /\ admitLog = [d \in Domains |-> <<>>]
    /\ lastOp = NoOp
    /\ nCalls = 0
    /\ wpc = [w \in Workers |-> "idle"]
    /\ wdom = [w \in Workers |-> None]
    /\ wtime = [w \in Workers |-> 0]
    /\ wcount = [w \in Workers |-> 0]
    /\ dConfig = None
    /\ dPrev = NoEval
    /\ dCur = NoEval
    /\ rKind = None
    /\ rConfig = None
    /\ rPc = None
    /\ rAttempt = 0
    /\ rOutcomes = <<>>
    /\ rSleeps = <<>>
    /\ rLast = NoExc
    /\ rResult = NoResult
    /\ tasks = <<>>
    /\ proxies \in {[i \in 1..3 |->
                        [host |-> WeightedHosts[i], success_count |-> c[i][1],
                         failure_count |-> c[i][2], is_active |-> TRUE]] :
                    c \in [1..3 -> CountSamples \X CountSamples]}
    /\ bad_proxies = {}
    /\ current_index = 0
    /\ max_failures \in MaxFailuresChoices
    /\ rotation_strategy = "weighted"
    /\ pmLast = NoCall
    /\ rrLog = <<>>
    /\ gpPc = [w \in Workers |-> "done"]
    /\ gpAvail = [w \in Workers |-> <<>>]
    /\ gpProxy = [w \in Workers |-> 0]
    /\ gpResult = [w \in Workers |-> NoCall]
    /\ pool_file = NoFile
    /\ hcResults = NoResults
    /\ mkPc = [w \in Workers |-> "done"]
    /\ mkOp = [w \in Workers |-> None]
    /\ mkInfo = [w \in Workers |-> 0]
    /\ mkTmp = [w \in Workers |-> 0]
    /\ mkCalls = <<>>
    /\ revoked = {}
    /\ statusLast = NoStatus
    /\ monStatus = <<>>
    /\ monSeen = {}
    /\ wmWorkers = {}
    /\ wmBroker = None
    /\ wmQueues = <<>>
    /\ wmLast = NoCall
    /\ dlPc = None
    /\ dlAttempt = 0
    /\ dlLog = <<>>
    /\ dlResult = None
    /\ dlMaxRetries = 0
    /\ eRun = <<>>
    /\ eOutcomes = <<>>

SpecWeighted == InitWeighted /\ [][NextWeighted]_vars

\* The proxies are A with 9 successes and 1 failure, B with 1 success and
\* 9 failures, and C never used
ScenarioABC ==
    /\ proxies[1].success_count = 9 /\ proxies[1].failure_count = 1
    /\ proxies[2].success_count = 1 /\ proxies[2].failure_count = 9
    /\ proxies[3].success_count = 0 /\ proxies[3].failure_count = 0

\* C18: with A at 9 successes and 1 failure, B at 1 success and 9 failures
\* and C never used, the selection weights of the weighted strategy are
\* ordered weight(A) > weight(C) > weight(B).
C18_WeightsOrderedACB ==
    (pmLast.op = "_get_weighted_proxy" /\ ScenarioABC)
        => /\ WeightLess(Weight(proxies[3]), Weight(proxies[1]))
           /\ WeightLess(Weight(proxies[2]), Weight(proxies[3]))

(***************************************************************************)
(* get_proxy called by two workers at once, one statement per step.        *)
(***************************************************************************)

\* The next statement of worker w inside get_proxy
GPStep(w) ==
    /\ gpPc[w] # "done"
    /\ CASE gpPc[w] = "filter" ->
                \* lines 97-106
                /\ IF proxies = <<>> \/ (~FilterRaises /\ AvailableProxies = <<>>)
                   THEN /\ gpPc' = [gpPc EXCEPT ![w] = "done"]
                        /\ gpResult' = [gpResult EXCEPT ![w] =
                              [op |-> "get_proxy", idx |-> 0, res |-> "None"]]
                        /\ UNCHANGED gpAvail
                   ELSE IF FilterRaises
                   THEN /\ gpPc' = [gpPc EXCEPT ![w] = "done"]
                        /\ gpResult' = [gpResult EXCEPT ![w] =
                              [op |-> "get_proxy", idx |-> 0, res |-> "TypeError"]]
                        /\ UNCHANGED gpAvail
                   ELSE /\ gpPc' = [gpPc EXCEPT ![w] = "select"]
                        /\ gpAvail' = [gpAvail EXCEPT ![w] = AvailableProxies]
                        /\ UNCHANGED gpResult
                /\ UNCHANGED <<gpProxy, current_index>>
          [] gpPc[w] = "select" ->
                \* lines 109-116, line 129
                /\ \E i \in (CASE rotation_strategy = "round_robin" ->
                                    {GetRoundRobinProxy(gpAvail[w], current_index).proxy}
                               [] rotation_strategy = "random" ->
                                    GetRandomProxy(gpAvail[w])
                               [] rotation_strategy = "weighted" ->
                                    GetWeightedProxy(proxies, gpAvail[w]) \cup {0}
                               [] OTHER -> {gpAvail[w][1]}) :
                    /\ (i = 0) = (rotation_strategy = "weighted"
                                    /\ GetWeightedProxy(proxies, gpAvail[w]) = {})
                    /\ gpProxy' = [gpProxy EXCEPT ![w] = i]
                    /\ IF i = 0
                       THEN /\ gpPc' = [gpPc EXCEPT ![w] = "done"]
                            /\ gpResult' = [gpResult EXCEPT ![w] =
                                  [op |-> "get_proxy", idx |-> 0, res |-> "ValueError"]]
                       ELSE /\ gpPc' = [gpPc EXCEPT ![w] =
                                  IF rotation_strategy = "round_robin"
                                  THEN "advance" ELSE "update"]
                            /\ UNCHANGED gpResult
                /\ UNCHANGED <<gpAvail, current_index>>
          [] gpPc[w] = "advance" ->
                \* line 130
                /\ current_index' = GetRoundRobinProxy(gpAvail[w], current_index).index
                /\ gpPc' = [gpPc EXCEPT ![w] = "update"]
                /\ UNCHANGED <<gpAvail, gpProxy, gpResult>>
          [] gpPc[w] = "update" ->
                \* lines 119-125
                /\ gpPc' = [gpPc EXCEPT ![w] = "done"]
                /\ gpResult' = [gpResult EXCEPT ![w] =
                      [op |-> "get_proxy", idx |-> gpProxy[w], res |-> "proxy"]]
                /\ UNCHANGED <<gpAvail, gpProxy, current_index>>
    /\ UNCHANGED <<proxies, bad_proxies, max_failures, rotation_strategy, pmLast, rrLog>>
    /\ UNCHANGED <<rlVars, wkVars, delayVars, retryVars, taskVars, pfVars, mkVars, ctVars, opsVars>>

NextProxyConc == \E w \in Workers : GPStep(w)

\* Pools a manager can hold when the two workers call: proxies of any hosts,
\* each active or not
ConcPools ==
    UNION {[1..n -> [host : Hosts, success_count : {0}, failure_count : {0},
                     is_active : BOOLEAN]] : n \in 0..MaxProxies}

\* Both workers are about to call get_proxy; the other parts stay dormant
InitProxyConc ==
    /\ now = 0
    /\ zset = [d \in Domains |-> {}]
    /\ expireAt = [d \in Domains |-> NoTTL]
    /\ argLimit = 0
    /\ argWindow = 0
    /\ admitLog = [d \in Domains |-> <<>>]
    /\ lastOp = NoOp
    /\ nCalls = 0
    /\ wpc = [w \in Workers |-> "idle"]
    /\ wdom = [w \in Workers |-> None]
    /\ wtime = [w \in Workers |-> 0]
    /\ wcount = [w \in Workers |-> 0]
    /\ dConfig = None
    /\ dPrev = NoEval
    /\ dCur = NoEval
    /\ rKind = None
    /\ rConfig = None
    /\ rPc = None
    /\ rAttempt = 0
    /\ rOutcomes = <<>>
    /\ rSleeps = <<>>
    /\ rLast = NoExc
    /\ rResult = NoResult
    /\ tasks = <<>>
    /\ proxies \in ConcPools
    /\ bad_proxies = {}
    /\ current_index = 0
    /\ max_failures \in MaxFailuresChoices
    /\ rotation_strategy \in Strategies
    /\ pmLast = NoCall
    /\ rrLog = <<>>
    /\ gpPc = [w \in Workers |-> "filter"]
    /\ gpAvail = [w \in Workers |-> <<>>]
    /\ gpProxy = [w \in Workers |-> 0]
    /\ gpResult = [w \in Workers |-> NoCall]
    /\ pool_file = NoFile
    /\ hcResults = NoResults
    /\ mkPc = [w \in Workers |-> "done"]
    /\ mkOp = [w \in Workers |-> None]
    /\ mkInfo = [w \in Workers |-> 0]
    /\ mkTmp = [w \in Workers |-> 0]
    /\ mkCalls = <<>>
    /\ revoked = {}
    /\ statusLast = NoStatus
    /\ monStatus = <<>>
    /\ monSeen = {}
    /\ wmWorkers = {}
    /\ wmBroker = None
    /\ wmQueues = <<>>
    /\ wmLast = NoCall
    /\ dlPc = None
    /\ dlAttempt = 0
    /\ dlLog = <<>>
    /\ dlResult = None
    /\ dlMaxRetries = 0
    /\ eRun = <<>>
    /\ eOutcomes = <<>>

SpecProxyConc == InitProxyConc /\ [][NextProxyConc]_vars

\* C20: under round_robin with at least two qualifying proxies and the pool
\* otherwise unchanged, two interleaved get_proxy calls return two different
\* proxies and leave the cursor two positions further.
C20_ConcurrentRoundRobinDistinct ==
    (/\ rotation_strategy = "round_robin"
     /\ Cardinality(Qualifying) >= 2
     /\ \A w \in Workers : gpPc[w] = "done")
        => /\ \A w \in Workers : gpResult[w].res = "proxy"
           /\ \A v, w \in Workers : v # w => gpResult[v].idx # gpResult[w].idx
           /\ current_index = 2 % Cardinality(Qualifying)

(***************************************************************************)
(* mark_bad and mark_success called by two workers at once, one statement  *)
(* per step.  Nothing in ProxyManager serialises the calls.                *)
(***************************************************************************)

\* Calls the workers make in all
MaxConcMarks == 3

RECURSIVE CallsTotal(_)
\* The calls counted in mkCalls, over all proxies
CallsTotal(seq) ==
    IF seq = <<>> THEN 0
    ELSE Head(seq).mark_bad + Head(seq).mark_success + CallsTotal(Tail(seq))

\* A worker calls mark_bad(proxy) or mark_success(proxy)
MarkCall(w, op, proxy_dict) ==
    /\ mkPc[w] = "done"
    /\ Len(proxies) > 0
    /\ CallsTotal(mkCalls) + Cardinality({v \in Workers : mkPc[v] = "find"})
            < MaxConcMarks
    /\ mkPc' = [mkPc EXCEPT ![w] = "find"]
    /\ mkOp' = [mkOp EXCEPT ![w] = op]
    /\ mkInfo' = [mkInfo EXCEPT ![w] = FindProxyByDict(proxy_dict)]
    /\ mkTmp' = [mkTmp EXCEPT ![w] = 0]
    /\ UNCHANGED mkCalls
    /\ UNCHANGED proxyVars
    /\ UNCHANGED <<rlVars, wkVars, delayVars, retryVars, taskVars, gpVars, pfVars, ctVars, opsVars>>

\* The next statement of worker w inside mark_bad or mark_success
MarkStep(w) ==
    /\ mkPc[w] # "done"
    /\ CASE mkPc[w] = "find" ->
                \* lines 178-180 and 200-202: proxy_info = self._find_proxy_by_dict(proxy)
                /\ mkPc' = [mkPc EXCEPT ![w] = IF mkInfo[w] = 0 THEN "done" ELSE "load"]
                /\ mkCalls' = IF mkInfo[w] = 0 THEN mkCalls
                              ELSE [mkCalls EXCEPT ![mkInfo[w]][mkOp[w]] = @ + 1]
                /\ UNCHANGED <<mkTmp, proxies>>
          [] mkPc[w] = "load" ->
                \* lines 181 and 203: the read of the += on the counter
                /\ mkTmp' = [mkTmp EXCEPT ![w] =
                        IF mkOp[w] = "mark_bad"
                        THEN proxies[mkInfo[w]].failure_count
                        ELSE proxies[mkInfo[w]].success_count]
                /\ mkPc' = [mkPc EXCEPT ![w] = "store"]
                /\ UNCHANGED <<mkCalls, proxies>>
          [] mkPc[w] = "store" ->
                \* lines 181 and 203: the write of the += on the counter
                /\ proxies' = IF mkOp[w] = "mark_bad"
                              THEN [proxies EXCEPT ![mkInfo[w]].failure_count = mkTmp[w] + 1]
                              ELSE [proxies EXCEPT ![mkInfo[w]].success_count = mkTmp[w] + 1]
                /\ mkPc' = [mkPc EXCEPT ![w] =
                        IF mkOp[w] = "mark_bad" THEN "check" ELSE "done"]
                /\ UNCHANGED <<mkCalls, mkTmp>>
          [] mkPc[w] = "check" ->
                \* line 184: if proxy_info.failure_count >= self.max_failures
                /\ mkPc' = [mkPc EXCEPT ![w] =
                        IF proxies[mkInfo[w]].failure_count >= max_failures
                        THEN "flag" ELSE "done"]
                /\ UNCHANGED <<mkCalls, mkTmp, proxies>>
          [] mkPc[w] = "flag" ->
                \* line 185: proxy_info.is_active = False
                /\ proxies' = [proxies EXCEPT ![mkInfo[w]].is_active = FALSE]
                /\ mkPc' = [mkPc EXCEPT ![w] = "add"]
                /\ UNCHANGED <<mkCalls, mkTmp>>
          [] mkPc[w] = "add" ->
                \* line 186: self.bad_proxies.add(proxy_info) hashes the record
                /\ mkPc' = [mkPc EXCEPT ![w] = "done"]
                /\ UNCHANGED <<mkCalls, mkTmp, proxies>>
    /\ bad_proxies' = IF mkPc[w] = "add" /\ ~HashRaises
                      THEN bad_proxies \cup {mkInfo[w]} ELSE bad_proxies
    /\ UNCHANGED <<mkOp, mkInfo>>
    /\ UNCHANGED <<current_index, max_failures, rotation_strategy, pmLast, rrLog>>
    /\ UNCHANGED <<rlVars, wkVars, delayVars, retryVars, taskVars, gpVars, pfVars, ctVars, opsVars>>

NextMarkConc ==
    \/ \E w \in Workers, op \in {"mark_bad", "mark_success"}, d \in ProxyDicts :
            MarkCall(w, op, d)
    \/ \E w \in Workers : MarkStep(w)

\* Pools a manager can hold when the workers start: fresh proxies of any hosts
MarkPools == {[i \in 1..Len(hs) |-> ProxyInfo(hs[i])] : hs \in ConfigProxies}

\* The workers are idle and no call has been made; the other parts stay dormant
InitMarkConc ==
    /\ now = 0
    /\ zset = [d \in Domains |-> {}]
    /\ expireAt = [d \in Domains |-> NoTTL]
    /\ argLimit = 0
    /\ argWindow = 0
    /\ admitLog = [d \in Domains |-> <<>>]
    /\ lastOp = NoOp
    /\ nCalls = 0
    /\ wpc = [w \in Workers |-> "idle"]
    /\ wdom = [w \in Workers |-> None]
    /\ wtime = [w \in Workers |-> 0]
    /\ wcount = [w \in Workers |-> 0]
    /\ dConfig = None
    /\ dPrev = NoEval
    /\ dCur = NoEval
    /\ rKind = None
    /\ rConfig = None
    /\ rPc = None
    /\ rAttempt = 0
    /\ rOutcomes = <<>>
    /\ rSleeps = <<>>
    /\ rLast = NoExc
    /\ rResult = NoResult
    /\ tasks = <<>>
    /\ proxies \in MarkPools
    /\ bad_proxies = {}
    /\ current_index = 0
    /\ max_failures \in MaxFailuresChoices
    /\ rotation_strategy = "round_robin"
    /\ pmLast = NoCall
    /\ rrLog = <<>>
    /\ gpPc = [w \in Workers |-> "done"]
    /\ gpAvail = [w \in Workers |-> <<>>]
    /\ gpProxy = [w \in Workers |-> 0]
    /\ gpResult = [w \in Workers |-> NoCall]
    /\ pool_file = NoFile
    /\ hcResults = NoResults
    /\ mkPc = [w \in Workers |-> "done"]
    /\ mkOp = [w \in Workers |-> None]
    /\ mkInfo = [w \in Workers |-> 0]
    /\ mkTmp = [w \in Workers |-> 0]
    /\ mkCalls = [i \in 1..Len(proxies) |-> [mark_bad |-> 0, mark_success |-> 0]]
    /\ revoked = {}
    /\ statusLast = NoStatus
    /\ monStatus = <<>>
    /\ monSeen = {}
    /\ wmWorkers = {}
    /\ wmBroker = None
    /\ wmQueues = <<>>
    /\ wmLast = NoCall
    /\ dlPc = None
    /\ dlAttempt = 0
    /\ dlLog = <<>>
    /\ dlResult = None
    /\ dlMaxRetries = 0
    /\ eRun = <<>>
    /\ eOutcomes = <<>>

SpecMarkConc == InitMarkConc /\ [][NextMarkConc]_vars

\* C21: with the pool membership fixed, once m mark_bad and k mark_success
\* calls on one proxy have all returned, its failure_count is m and its
\* success_count is k: no update is lost.
C21_NoLostUpdate ==
    (\A w \in Workers : mkPc[w] = "done")
        => \A i \in 1..Len(proxies) :
              /\ proxies[i].failure_count = mkCalls[i].mark_bad
              /\ proxies[i].success_count = mkCalls[i].mark_success

(***************************************************************************)
(* health_check_all                                                        *)
(***************************************************************************)

\* Number of probes of a list that passed
PassedCount(probes) == Cardinality({i \in 1..Len(probes) : probes[i]})

\* C23: health_check_all probes every proxy of the pool once, in order, and
\* returns total = checked = healthy + unhealthy = number of proxies, with
\* healthy the number of probes that passed; afterwards the is_active flag of
\* each proxy is the outcome of its probe.
C23_HealthCheckAllCountsAndFlags ==
    hcResults # NoResults
        => /\ Len(hcResults.probes) = Len(proxies)
           /\ hcResults.total = Len(proxies)
           /\ hcResults.checked = hcResults.total
           /\ hcResults.healthy + hcResults.unhealthy = hcResults.total
           /\ hcResults.healthy = PassedCount(hcResults.probes)
           /\ \A i \in 1..Len(proxies) : proxies[i].is_active = hcResults.probes[i]

\* health_check_all has just returned for a pool of two proxies, one of which
\* had been deactivated by failures and passed its probe, the other failed it
C23_Witness ==
    /\ pmLast.op = "health_check_all"
    /\ hcResults.total = 2
    /\ hcResults.healthy = 1
    /\ hcResults.unhealthy = 1
    /\ \E i \in 1..Len(proxies) :
          /\ proxies[i].failure_count >= max_failures
          /\ proxies[i].is_active

(***************************************************************************)
(* save_proxy_pool and load_proxy_pool across a restart of the process     *)
(***************************************************************************)

\* The dictionary save_proxy_pool writes for a proxy, as json.load returns it
SavedRecord(p) ==
    [host |-> p.host, success_count |-> p.success_count,
     failure_count |-> p.failure_count, is_active |-> p.is_active]

\* save_proxy_pool(file_path): one dictionary per proxy, in list order
SaveProxyPool ==
    /\ pool_file' = [i \in 1..Len(proxies) |-> SavedRecord(proxies[i])]
    /\ pmLast' = [op |-> "save_proxy_pool", idx |-> 0, res |-> "None"]
    /\ rrLog' = <<>>
    /\ hcResults' = NoResults
    /\ UNCHANGED <<proxies, bad_proxies, current_index, max_failures, rotation_strategy>>
    /\ UNCHANGED <<rlVars, wkVars, delayVars, retryVars, taskVars, gpVars, mkVars, ctVars, opsVars>>

\* ProxyManager({...}) in a new process: no proxies configured
FreshManager ==
    /\ proxies' = <<>>
    /\ bad_proxies' = {}
    /\ current_index' = 0
    /\ pmLast' = [op |-> "__init__", idx |-> 0, res |-> "None"]
    /\ rrLog' = <<>>
    /\ hcResults' = NoResults
    /\ UNCHANGED <<pool_file, max_failures, rotation_strategy>>
    /\ UNCHANGED <<rlVars, wkVars, delayVars, retryVars, taskVars, gpVars, mkVars, ctVars, opsVars>>

NextPersist ==
    \/ SaveProxyPool
    \/ FreshManager
    \/ LoadProxyPool(pool_file)
    \/ \E i \in 1..MaxProxies, passes \in BOOLEAN : HealthCheckProxy(i, passes)

\* Pools a manager can hold when it is saved: proxies of any hosts, used or
\* not, active or not
PersistPools ==
    UNION {[1..n -> [host : Hosts, success_count : {0, 1}, failure_count : {0, 2},
                     is_active : BOOLEAN]] : n \in 0..MaxProxies}

\* A manager holding a pool, no pool file yet; the other parts stay dormant
InitPersist ==
    /\ now = 0
    /\ zset = [d \in Domains |-> {}]
    /\ expireAt = [d \in Domains |-> NoTTL]
    /\ argLimit = 0
    /\ argWindow = 0
    /\ admitLog = [d \in Domains |-> <<>>]
    /\ lastOp = NoOp
    /\ nCalls = 0
    /\ wpc = [w \in Workers |-> "idle"]
    /\ wdom = [w \in Workers |-> None]
    /\ wtime = [w \in Workers |-> 0]
    /\ wcount = [w \in Workers |-> 0]
    /\ dConfig = None
    /\ dPrev = NoEval
    /\ dCur = NoEval
    /\ rKind = None
    /\ rConfig = None
    /\ rPc = None
    /\ rAttempt = 0
    /\ rOutcomes = <<>>
    /\ rSleeps = <<>>
    /\ rLast = NoExc
    /\ rResult = NoResult
    /\ tasks = <<>>
    /\ proxies \in PersistPools
    /\ bad_proxies = {}
    /\ current_index = 0
    /\ max_failures = 2
    /\ rotation_strategy = "round_robin"
    /\ pmLast = NoCall
    /\ rrLog = <<>>
    /\ gpPc = [w \in Workers |-> "done"]
    /\ gpAvail = [w \in Workers |-> <<>>]
    /\ gpProxy = [w \in Workers |-> 0]
    /\ gpResult = [w \in Workers |-> NoCall]
    /\ pool_file = NoFile
    /\ hcResults = NoResults
    /\ mkPc = [w \in Workers |-> "done"]
    /\ mkOp = [w \in Workers |-> None]
    /\ mkInfo = [w \in Workers |-> 0]
    /\ mkTmp = [w \in Workers |-> 0]
    /\ mkCalls = <<>>
    /\ revoked = {}
    /\ statusLast = NoStatus
    /\ monStatus = <<>>
    /\ monSeen = {}
    /\ wmWorkers = {}
    /\ wmBroker = None
    /\ wmQueues = <<>>
    /\ wmLast = NoCall
    /\ dlPc = None
    /\ dlAttempt = 0
    /\ dlLog = <<>>
    /\ dlResult = None
    /\ dlMaxRetries = 0
    /\ eRun = <<>>
    /\ eOutcomes = <<>>

SpecPersist == InitPersist /\ [][NextPersist]_vars

\* C22: a fresh ProxyManager that loads the file save_proxy_pool wrote holds
\* the saved records, equal in every field, and each of them is eligible for
\* get_proxy (active and not bad) exactly if it was when the pool was saved.
C22_SaveLoadRoundTrip ==
    (pmLast.op = "load_proxy_pool" /\ pool_file # NoFile)
        => /\ proxies = pool_file
           /\ \A i \in 1..Len(pool_file) :
                 (proxies[i].is_active /\ i \notin bad_proxies) = pool_file[i].is_active

(***************************************************************************)
(* Rate-limit denials and the retry counter of a download item             *)
(***************************************************************************)

\* C24: a download item the rate limiter denies is re-scheduled without its
\* retry counter being incremented: request.retries counts only the
\* executions that were admitted, so the retries left for content failures
\* are the same after any number of denials.
C24_DenialKeepsRetryCounter ==
    \A id \in 1..Len(tasks) :
        (tasks[id].kind = "download" /\ tasks[id].valid)
            => tasks[id].retries <= tasks[id].runs - tasks[id].denials

(***************************************************************************)
(* One download item on a domain other callers of the limiter keep busy    *)
(***************************************************************************)

\* Admissions the limiter grants to other callers
MaxOtherAdmissions == 6

\* Another download for the domain, run by another worker, is admitted by
\* is_allowed at this second
OtherDownloadAdmitted(d) ==
    /\ nCalls < MaxOtherAdmissions
    /\ Admits(d, 0, 0)
    /\ IsAllowedCall(d, 0, 0)
    /\ nCalls' = nCalls + 1
    /\ UNCHANGED <<now, argLimit, argWindow>>
    /\ UNCHANGED <<wkVars, delayVars, retryVars, taskVars, proxyVars, gpVars,
                 pfVars, mkVars, ctVars, opsVars>>

NextDenial ==
    \/ \E d \in Domains : OtherDownloadAdmitted(d)
    \/ \E id \in TaskIds : RunDownloadDenied(id)
    \/ \E id \in TaskIds, outcome \in {"downloaded", "duplicate", "failed", "raise"},
          jitter \in RandomUniform(0, 30) : RunDownloadAdmitted(id, outcome, jitter)
    \/ \E id \in TaskIds : Elapse(id)

\* One valid download item is enqueued, the limiter's store is empty; the
\* other parts stay dormant
InitDenial ==
    /\ now = 0
    /\ zset = [d \in Domains |-> {}]
    /\ expireAt = [d \in Domains |-> NoTTL]
    /\ argLimit = 0
    /\ argWindow = 0
    /\ admitLog = [d \in Domains |-> <<>>]
    /\ lastOp = NoOp
    /\ nCalls = 0
    /\ wpc = [w \in Workers |-> "idle"]
    /\ wdom = [w \in Workers |-> None]
    /\ wtime = [w \in Workers |-> 0]
    /\ wcount = [w \in Workers |-> 0]
    /\ dConfig = None
    /\ dPrev = NoEval
    /\ dCur = NoEval
    /\ rKind = None
    /\ rConfig = None
    /\ rPc = None
    /\ rAttempt = 0
    /\ rOutcomes = <<>>
    /\ rSleeps = <<>>
    /\ rLast = NoExc
    /\ rResult = NoResult
    /\ tasks \in {<<NewTask("download", TRUE, d)>> : d \in Domains}
    /\ proxies = <<>>
    /\ bad_proxies = {}
    /\ current_index = 0
    /\ max_failures = 0
    /\ rotation_strategy = None
    /\ pmLast = NoCall
    /\ rrLog = <<>>
    /\ gpPc = [w \in Workers |-> "done"]
    /\ gpAvail = [w \in Workers |-> <<>>]
    /\ gpProxy = [w \in Workers |-> 0]
    /\ gpResult = [w \in Workers |-> NoCall]
    /\ pool_file = NoFile
    /\ hcResults = NoResults
    /\ mkPc = [w \in Workers |-> "done"]
    /\ mkOp = [w \in Workers |-> None]
    /\ mkInfo = [w \in Workers |-> 0]
    /\ mkTmp = [w \in Workers |-> 0]
    /\ mkCalls = <<>>
    /\ revoked = {}
    /\ statusLast = NoStatus
    /\ monStatus = <<>>
    /\ monSeen = {}
    /\ wmWorkers = {}
    /\ wmBroker = None
    /\ wmQueues = <<>>
    /\ wmLast = NoCall
    /\ dlPc = None
    /\ dlAttempt = 0
    /\ dlLog = <<>>
    /\ dlResult = None
    /\ dlMaxRetries = 0
    /\ eRun = <<>>
    /\ eOutcomes = <<>>

SpecDenial == InitDenial /\ [][NextDenial]_vars

\* C25: a download item never ends in FAILURE when every one of its
\* executions was a rate-limit denial; denied however often, it stays
\* scheduled until the limiter admits it.
C25_DenialsNeverFail ==
    \A id \in 1..Len(tasks) :
        (tasks[id].kind = "download" /\ tasks[id].valid /\ tasks[id].state = "FAILURE")
            => tasks[id].denials < tasks[id].runs

(***************************************************************************)
(* One search item and the download items its executions send              *)
(***************************************************************************)

\* Items the broker holds in all: the search and what it sent
MaxFanOutItems == 3

NextSearch ==
    \/ \E id \in 1..MaxFanOutItems : RunSearchInvalid(id)
    \/ \E id \in 1..MaxFanOutItems, found \in FoundLists :
            RunSearchFinds(id, found, MaxFanOutItems)
    \/ \E id \in 1..MaxFanOutItems, found \in FoundLists, k \in 0..MaxResults,
          jitter \in RandomUniform(0, 10) :
            RunSearchFailsPartway(id, found, k, jitter, MaxFanOutItems)
    \/ \E id \in 1..MaxFanOutItems, jitter \in RandomUniform(0, 10) :
            RunSearchRaises(id, jitter)
    \/ \E id \in 1..MaxFanOutItems : RunDownloadDenied(id)
    \/ \E id \in 1..MaxFanOutItems,
          outcome \in {"downloaded", "duplicate", "failed", "raise"},
          jitter \in RandomUniform(0, 30) : RunDownloadAdmitted(id, outcome, jitter)
    \/ \E id \in 1..MaxFanOutItems : Elapse(id)

\* One search item is enqueued; the other parts stay dormant
InitSearch ==
    /\ now = 0
    /\ zset = [d \in Domains |-> {}]
    /\ expireAt = [d \in Domains |-> NoTTL]
    /\ argLimit = 0
    /\ argWindow = 0
    /\ admitLog = [d \in Domains |-> <<>>]
    /\ lastOp = NoOp
    /\ nCalls = 0
    /\ wpc = [w \in Workers |-> "idle"]
    /\ wdom = [w \in Workers |-> None]
    /\ wtime = [w \in Workers |-> 0]
    /\ wcount = [w \in Workers |-> 0]
    /\ dConfig = None
    /\ dPrev = NoEval
    /\ dCur = NoEval
    /\ rKind = None
    /\ rConfig = None
    /\ rPc = None
    /\ rAttempt = 0
    /\ rOutcomes = <<>>
    /\ rSleeps = <<>>
    /\ rLast = NoExc
    /\ rResult = NoResult
    /\ tasks \in {<<NewTask("search", valid, None)>> : valid \in BOOLEAN}
    /\ proxies = <<>>
    /\ bad_proxies = {}
    /\ current_index = 0
    /\ max_failures = 0
    /\ rotation_strategy = None
    /\ pmLast = NoCall
    /\ rrLog = <<>>
    /\ gpPc = [w \in Workers |-> "done"]
    /\ gpAvail = [w \in Workers |-> <<>>]
    /\ gpProxy = [w \in Workers |-> 0]
    /\ gpResult = [w \in Workers |-> NoCall]
    /\ pool_file = NoFile
    /\ hcResults = NoResults
    /\ mkPc = [w \in Workers |-> "done"]
    /\ mkOp = [w \in Workers |-> None]
    /\ mkInfo = [w \in Workers |-> 0]
    /\ mkTmp = [w \in Workers |-> 0]
    /\ mkCalls = <<>>
    /\ revoked = {}
    /\ statusLast = NoStatus
    /\ monStatus = <<>>
    /\ monSeen = {}
    /\ wmWorkers = {}
    /\ wmBroker = None
    /\ wmQueues = <<>>
    /\ wmLast = NoCall
    /\ dlPc = None
    /\ dlAttempt = 0
    /\ dlLog = <<>>
    /\ dlResult = None
    /\ dlMaxRetries = 0
    /\ eRun = <<>>
    /\ eOutcomes = <<>>

SpecSearch == InitSearch /\ [][NextSearch]_vars

\* C26: a search item that ended with N results, or with none, has sent
\* exactly N download items over all its executions, those that failed
\* part-way and were retried included.
C26_FanOutExactlyOncePerResult ==
    \A id \in 1..Len(tasks) :
        (/\ tasks[id].kind = "search"
         /\ tasks[id].state = "SUCCESS"
         /\ tasks[id].result \in {"success", "no_results"})
            => /\ tasks[id].enqueued = tasks[id].found
               /\ Cardinality({c \in 1..Len(tasks) : tasks[c].kind = "download"})
                    = tasks[id].found

(***************************************************************************)
(* get_task_status                                                         *)
(***************************************************************************)

\* States in which AsyncResult.ready() is true
ReadyStates == {"SUCCESS", "FAILURE", "REVOKED"}

\* The meta data the result backend answers with for a task id: the stored
\* entry, or PENDING with no result for an id it holds nothing about
BackendMeta(task_id) ==
    IF task_id \in 1..Len(tasks) /\ tasks[task_id].state # "PENDING"
    THEN [status |-> tasks[task_id].state, result |-> tasks[task_id].result]
    ELSE [status |-> "PENDING", result |-> None]

\* The dictionary get_task_status returns when the backend answers
TaskStatus(task_id) ==
    LET meta == BackendMeta(task_id)
        ready == meta.status \in ReadyStates
    IN  [task_id |-> task_id,
         status |-> meta.status,
         result |-> IF ready THEN meta.result ELSE None,
         successful |-> IF ready THEN (IF meta.status = "SUCCESS" THEN "True" ELSE "False")
                        ELSE None]

\* get_task_status(task_id); backend_up tells whether the result backend
\* answers or AsyncResult raises
GetTaskStatus(task_id, backend_up) ==
    /\ statusLast' = IF backend_up THEN TaskStatus(task_id)
                     ELSE [task_id |-> task_id, status |-> "UNKNOWN",
                           result |-> None, successful |-> None]
    /\ UNCHANGED revoked
    /\ UNCHANGED <<rlVars, wkVars, delayVars, retryVars, taskVars, proxyVars, gpVars,
                 pfVars, mkVars, opsVars>>

\* Ids a caller asks about: 0 is an id no enqueue operation returns
StatusIds == 0..MaxItems

NextStatus ==
    \/ NextTask
    \/ \E task_id \in StatusIds, backend_up \in BOOLEAN : GetTaskStatus(task_id, backend_up)

SpecStatus == InitTask /\ [][NextStatus]_vars

\* A download item whose download has failed for good: download_and_store
\* returned status 'failed', or the retries of a raising download ran out
DownloadFailed(id) ==
    /\ id \in 1..Len(tasks)
    /\ tasks[id].kind = "download"
    /\ tasks[id].valid
    /\ tasks[id].state \in ReadyStates
    /\ tasks[id].result = "failed"

\* C27: get_task_status reports an item whose download ultimately failed
\* (retries exhausted, or the collaborator returned status failed) with
\* status FAILURE, never as succeeded.
C27_FailedDownloadReportedFailed ==
    (statusLast.status \in ReadyStates /\ DownloadFailed(statusLast.task_id))
        => /\ statusLast.status = "FAILURE"
           /\ statusLast.successful # "True"

\* C29: asked about an id that no enqueue operation returned, get_task_status
\* answers with an unknown-task outcome, which differs from what it answers
\* for an item that is pending.
C29_UnknownIdNotPending ==
    statusLast.task_id = 0 => statusLast.status # "PENDING"

(***************************************************************************)
(* Termination of the work items while a worker keeps running              *)
(***************************************************************************)

\* A worker executes a message, or the countdown of the earliest waiting
\* message runs out
WorkerStep ==
    \/ \E id \in TaskIds : RunDownloadInvalid(id)
    \/ \E id \in TaskIds : RunDownloadDenied(id)
    \/ \E id \in TaskIds, outcome \in {"downloaded", "duplicate", "failed", "raise"},
          jitter \in RandomUniform(0, 30) : RunDownloadAdmitted(id, outcome, jitter)
    \/ \E id \in TaskIds : RunSearchInvalid(id)
    \/ \E id \in TaskIds, found \in FoundLists : RunSearchFinds(id, found, MaxItems)
    \/ \E id \in TaskIds, found \in FoundLists, k \in 0..MaxResults,
          jitter \in RandomUniform(0, 10) :
            RunSearchFailsPartway(id, found, k, jitter, MaxItems)
    \/ \E id \in TaskIds, jitter \in RandomUniform(0, 10) : RunSearchRaises(id, jitter)
    \/ \E id \in TaskIds : Elapse(id)

\* Items as the enqueue operations send them
LiveItems ==
    {NewTask("download", valid, d) : valid \in BOOLEAN, d \in Domains}
        \cup {NewTask("search", valid, None) : valid \in BOOLEAN}

\* Numbers of items enqueued before the workers start
LiveQueueLengths == {1, 2}

\* The items are enqueued, none has run; the other parts stay dormant
InitLive ==
    /\ now = 0
    /\ zset = [d \in Domains |-> {}]
    /\ expireAt = [d \in Domains |-> NoTTL]
    /\ argLimit = 0
    /\ argWindow = 0
    /\ admitLog = [d \in Domains |-> <<>>]
    /\ lastOp = NoOp
    /\ nCalls = 0
    /\ wpc = [w \in Workers |-> "idle"]
    /\ wdom = [w \in Workers |-> None]
    /\ wtime = [w \in Workers |-> 0]
    /\ wcount = [w \in Workers |-> 0]
    /\ dConfig = None
    /\ dPrev = NoEval
    /\ dCur = NoEval
    /\ rKind = None
    /\ rConfig = None
    /\ rPc = None
    /\ rAttempt = 0
    /\ rOutcomes = <<>>
    /\ rSleeps = <<>>
    /\ rLast = NoExc
    /\ rResult = NoResult
    /\ tasks \in UNION {[1..n -> LiveItems] : n \in LiveQueueLengths}
    /\ proxies = <<>>
    /\ bad_proxies = {}
    /\ current_index = 0
    /\ max_failures = 0
    /\ rotation_strategy = None
    /\ pmLast = NoCall
    /\ rrLog = <<>>
    /\ gpPc = [w \in Workers |-> "done"]
    /\ gpAvail = [w \in Workers |-> <<>>]
    /\ gpProxy = [w \in Workers |-> 0]
    /\ gpResult = [w \in Workers |-> NoCall]
    /\ pool_file = NoFile
    /\ hcResults = NoResults
    /\ mkPc = [w \in Workers |-> "done"]
    /\ mkOp = [w \in Workers |-> None]
    /\ mkInfo = [w \in Workers |-> 0]
    /\ mkTmp = [w \in Workers |-> 0]
    /\ mkCalls = <<>>
    /\ revoked = {}
    /\ statusLast = NoStatus
    /\ monStatus = <<>>
    /\ monSeen = {}
    /\ wmWorkers = {}
    /\ wmBroker = None
    /\ wmQueues = <<>>
    /\ wmLast = NoCall
    /\ dlPc = None
    /\ dlAttempt = 0
    /\ dlLog = <<>>
    /\ dlResult = None
    /\ dlMaxRetries = 0
    /\ eRun = <<>>
    /\ eOutcomes = <<>>

\* The workers alone: nothing is enqueued but what the searches send
SpecLive == InitLive /\ [][WorkerStep]_vars

\* A worker keeps consuming the queues: a message that may be delivered is
\* executed, a countdown that is running runs out
FairSpecLive == SpecLive /\ WF_vars(WorkerStep)

\* The states get_task_status reports for an item that will not run again
TerminalStates == {"SUCCESS", "FAILURE"}

\* Executions an item can have: the first and one per retry of the larger
\* of the two retry limits
MaxRuns == RateLimitMaxRetries + 1

\* C28: while a worker keeps running, every enqueued item is executed at most
\* a bounded number of times and eventually reaches a terminal state; it is
\* not left PENDING or RETRY forever.
C28_EveryItemEventuallyTerminal ==
    /\ [](\A id \in 1..Len(tasks) : tasks[id].runs <= MaxRuns)
    /\ \A id \in TaskIds :
          (id <= Len(tasks)) ~> (id <= Len(tasks) /\ tasks[id].state \in TerminalStates)

\* An item that was denied by the limiter, retried, and has reached a
\* terminal state
C28_Witness ==
    \E id \in 1..Len(tasks) :
        /\ tasks[id].state \in TerminalStates
        /\ tasks[id].denials >= 1
        /\ tasks[id].runs >= 3

(***************************************************************************)
(* cancel_task.  The execution of a download item is split in two steps:   *)
(* a worker starts it (task_track_started: state STARTED) and the body     *)
(* ends.  A revoke request reaches the workers between any two steps.      *)
(***************************************************************************)

\* A worker receives the message: an id it holds as revoked is discarded
\* and stored as REVOKED, any other starts to execute
StartDownload(id) ==
    /\ Deliverable(id)
    /\ tasks[id].kind = "download"
    /\ tasks' = [tasks EXCEPT ![id] =
          IF id \in revoked
          THEN [@ EXCEPT !.state = "REVOKED", !.result = "TaskRevokedError"]
          ELSE [@ EXCEPT !.state = "STARTED"]]
    /\ UNCHANGED <<revoked, statusLast>>
    /\ UNCHANGED <<rlVars, wkVars, delayVars, retryVars, proxyVars, gpVars, pfVars, mkVars, opsVars>>

\* The body of a started download_image_task runs to its end: denied by the
\* limiter, or admitted with download_and_store returning or raising
FinishDownload(id, outcome, jitter) ==
    /\ id \in 1..Len(tasks)
    /\ tasks[id].state = "STARTED"
    /\ tasks[id].valid
    /\ IsAllowed(tasks[id].domain, 0, 0)
    /\ IF Admits(tasks[id].domain, 0, 0)
       THEN /\ lastOp' = [op |-> "is_allowed", domain |-> tasks[id].domain,
                          result |-> TRUE]
            /\ tasks' = [tasks EXCEPT ![id] =
                  AfterRun(@, AdmittedEnd(@, outcome, jitter))]
       ELSE LET wait_time == WaitTime(zset'[tasks[id].domain], now, 0, 0)
            IN  /\ lastOp' = [op |-> "get_wait_time", domain |-> tasks[id].domain,
                              result |-> wait_time]
                /\ tasks' = [tasks EXCEPT ![id] =
                      [AfterRun(@, DeniedEnd(@, wait_time)) EXCEPT !.denials = @ + 1]]
    /\ UNCHANGED <<now, argLimit, argWindow, nCalls>>
    /\ UNCHANGED <<revoked, statusLast>>
    /\ UNCHANGED <<wkVars, delayVars, retryVars, proxyVars, gpVars, pfVars, mkVars, opsVars>>

\* cancel_task(task_id): app.control.revoke(task_id, terminate=True).  The
\* workers add the id to their revoked set; the worker that is executing the
\* task sends SIGTERM to the process running it, and the task is stored as
\* REVOKED with its execution cut off
CancelTask(task_id) ==
    /\ task_id \notin revoked
    /\ revoked' = revoked \cup {task_id}
    /\ tasks' = IF task_id \in 1..Len(tasks) /\ tasks[task_id].state = "STARTED"
                THEN [tasks EXCEPT ![task_id] =
                        [@ EXCEPT !.state = "REVOKED", !.result = "Terminated"]]
                ELSE tasks
    /\ UNCHANGED statusLast
    /\ UNCHANGED <<rlVars, wkVars, delayVars, retryVars, proxyVars, gpVars, pfVars, mkVars, opsVars>>

\* Time passes while no execution is under way: as in the whole-execution
\* steps above, an execution ends within the clock second it started in
ElapseIdle(id) ==
    /\ \A other \in 1..Len(tasks) : tasks[other].state # "STARTED"
    /\ Elapse(id)

NextCancel ==
    \/ \E id \in TaskIds : StartDownload(id)
    \/ \E id \in TaskIds, outcome \in {"downloaded", "failed", "raise"},
          jitter \in RandomUniform(0, 30) : FinishDownload(id, outcome, jitter)
    \/ \E task_id \in StatusIds : CancelTask(task_id)
    \/ \E id \in TaskIds : ElapseIdle(id)

\* Valid download items as enqueue_download sends them
CancelItems == {NewTask("download", TRUE, d) : d \in Domains}

\* The items are enqueued, none is revoked; the other parts stay dormant
InitCancel ==
    /\ now = 0
    /\ zset = [d \in Domains |-> {}]
    /\ expireAt = [d \in Domains |-> NoTTL]
    /\ argLimit = 0
    /\ argWindow = 0
    /\ admitLog = [d \in Domains |-> <<>>]
    /\ lastOp = NoOp
    /\ nCalls = 0
    /\ wpc = [w \in Workers |-> "idle"]
    /\ wdom = [w \in Workers |-> None]
    /\ wtime = [w \in Workers |-> 0]
    /\ wcount = [w \in Workers |-> 0]
    /\ dConfig = None
    /\ dPrev = NoEval
    /\ dCur = NoEval
    /\ rKind = None
    /\ rConfig = None
    /\ rPc = None
    /\ rAttempt = 0
    /\ rOutcomes = <<>>
    /\ rSleeps = <<>>
    /\ rLast = NoExc
    /\ rResult = NoResult
    /\ tasks \in UNION {[1..n -> CancelItems] : n \in LiveQueueLengths}
    /\ proxies = <<>>
    /\ bad_proxies = {}
    /\ current_index = 0
    /\ max_failures = 0
    /\ rotation_strategy = None
    /\ pmLast = NoCall
    /\ rrLog = <<>>
    /\ gpPc = [w \in Workers |-> "done"]
    /\ gpAvail = [w \in Workers |-> <<>>]
    /\ gpProxy = [w \in Workers |-> 0]
    /\ gpResult = [w \in Workers |-> NoCall]
    /\ pool_file = NoFile
    /\ hcResults = NoResults
    /\ mkPc = [w \in Workers |-> "done"]
    /\ mkOp = [w \in Workers |-> None]
    /\ mkInfo = [w \in Workers |-> 0]
    /\ mkTmp = [w \in Workers |-> 0]
    /\ mkCalls = <<>>
    /\ revoked = {}
    /\ statusLast = NoStatus
    /\ monStatus = <<>>
    /\ monSeen = {}
    /\ wmWorkers = {}
    /\ wmBroker = None
    /\ wmQueues = <<>>
    /\ wmLast = NoCall
    /\ dlPc = None
    /\ dlAttempt = 0
    /\ dlLog = <<>>
    /\ dlResult = None
    /\ dlMaxRetries = 0
    /\ eRun = <<>>
    /\ eOutcomes = <<>>

SpecCancel == InitCancel /\ [][NextCancel]_vars

\* C30: cancel_task on an item that is being executed does not end the
\* execution, which goes on as STARTED until the body ends by itself; an
\* item cancelled while PENDING or RETRY is never started afterwards.
C30_CancelNeverPreempts ==
    [][\A id \in 1..Len(tasks) :
          /\ (tasks[id].state = "STARTED" /\ id \in revoked' /\ id \notin revoked)
                => tasks'[id].state = "STARTED"
          /\ (tasks[id].state \in {"PENDING", "RETRY"} /\ id \in revoked)
                => tasks'[id].state # "STARTED"]_vars

(***************************************************************************)
(* Part 8.  WorkerMonitor, WorkerManager, the per-domain rate table, the   *)
(* proxied download and the retry executors side by side.                  *)
(*                                                                         *)
(* WorkerMonitor (src/harvest/worker_manager.py) listens to the task       *)
(* events of the workers and keeps one hash per task id in Redis.  The     *)
(* events of one execution come from the worker that executes it, in the   *)
(* order started, then retried / succeeded / failed.  An item that is      *)
(* retried may be executed by another worker, each worker publishes its    *)
(* events over its own connection, and the monitor handles them in the     *)
(* order in which they arrive: events of different executions of one item  *)
(* are handled in any order.                                               *)
(***************************************************************************)
\* The executions of item t that have sent task-started
StartedRuns(t) ==
    t.runs + (IF t.state = "STARTED" \/ (t.state = "REVOKED" /\ t.result = "Terminated")
              THEN 1 ELSE 0)

\* The event execution `run` of item t ended with
EndOfRun(t, run) ==
    IF run = t.runs /\ t.state = "SUCCESS" THEN "succeeded"
    ELSE IF run = t.runs /\ t.state = "FAILURE" THEN "failed"
    ELSE "retried"

\* The task events the workers have sent for item id; there is no handler for
\* task-revoked
Emitted(id) ==
    IF id \in 1..Len(tasks)
    THEN {[id |-> id, run |-> run, type |-> "started"] : run \in 1..StartedRuns(tasks[id])}
         \cup {[id |-> id, run |-> run, type |-> EndOfRun(tasks[id], run)] :
                  run \in 1..tasks[id].runs}
    ELSE {}

\* _update_task_status(task_id, status): hset of the hash, whatever it holds
UpdateTaskStatus(store, task_id, status) == [store EXCEPT ![task_id] = status]

EventTypes == {"started", "succeeded", "failed", "retried"}

\* _on_task_started, _on_task_succeeded, _on_task_failed, _on_task_retried:
\* the monitor handles one event it has received
OnTaskEvent(id, run, type) ==
    /\ [id |-> id, run |-> run, type |-> type] \in Emitted(id) \ monSeen
    /\ type # "started" => [id |-> id, run |-> run, type |-> "started"] \in monSeen
    /\ monStatus' = UpdateTaskStatus(monStatus, id, type)
    /\ monSeen' = monSeen \cup {[id |-> id, run |-> run, type |-> type]}
    /\ UNCHANGED <<wmVars, dlVars, eqVars>>
    /\ UNCHANGED <<rlVars, wkVars, delayVars, retryVars, taskVars, proxyVars, gpVars,
                 pfVars, mkVars, ctVars>>

NextMonitor ==
    \/ \E id \in TaskIds : StartDownload(id)
    \/ \E id \in TaskIds, outcome \in {"downloaded", "failed", "raise"},
          jitter \in RandomUniform(0, 30) : FinishDownload(id, outcome, jitter)
    \/ \E task_id \in StatusIds : CancelTask(task_id)
    \/ \E id \in TaskIds : ElapseIdle(id)
    \/ \E id \in TaskIds, run \in 1..(MaxRuns + 1), type \in EventTypes :
          OnTaskEvent(id, run, type)

\* One item is enqueued and the monitor has recorded nothing
InitMonitor ==
    /\ now = 0
    /\ zset = [d \in Domains |-> {}]
    /\ expireAt = [d \in Domains |-> NoTTL]
    /\ argLimit = 0
    /\ argWindow = 0
    /\ admitLog = [d \in Domains |-> <<>>]
    /\ lastOp = NoOp
    /\ nCalls = 0
    /\ wpc = [w \in Workers |-> "idle"]
    /\ wdom = [w \in Workers |-> None]
    /\ wtime = [w \in Workers |-> 0]
    /\ wcount = [w \in Workers |-> 0]
    /\ dConfig = None
    /\ dPrev = NoEval
    /\ dCur = NoEval
    /\ rKind = None
    /\ rConfig = None
    /\ rPc = None
    /\ rAttempt = 0
    /\ rOutcomes = <<>>
    /\ rSleeps = <<>>
    /\ rLast = NoExc
    /\ rResult = NoResult
    /\ tasks \in [1..1 -> CancelItems]
    /\ proxies = <<>>
    /\ bad_proxies = {}
    /\ current_index = 0
    /\ max_failures = 0
    /\ rotation_strategy = None
    /\ pmLast = NoCall
    /\ rrLog = <<>>
    /\ gpPc = [w \in Workers |-> "done"]
    /\ gpAvail = [w \in Workers |-> <<>>]
    /\ gpProxy = [w \in Workers |-> 0]
    /\ gpResult = [w \in Workers |-> NoCall]
    /\ pool_file = NoFile
    /\ hcResults = NoResults
    /\ mkPc = [w \in Workers |-> "done"]
    /\ mkOp = [w \in Workers |-> None]
    /\ mkInfo = [w \in Workers |-> 0]
    /\ mkTmp = [w \in Workers |-> 0]
    /\ mkCalls = <<>>
    /\ revoked = {}
    /\ statusLast = NoStatus
    /\ monStatus = [id \in TaskIds |-> None]
    /\ monSeen = {}
    /\ wmWorkers = {}
    /\ wmBroker = None
    /\ wmQueues = <<>>
    /\ wmLast = NoCall
    /\ dlPc = None
    /\ dlAttempt = 0
    /\ dlLog = <<>>
    /\ dlResult = None
    /\ dlMaxRetries = 0
    /\ eRun = <<>>
    /\ eOutcomes = <<>>

SpecMonitor == InitMonitor /\ [][NextMonitor]_vars

\* C31: once the status of an item is terminal it never changes again,
\* whatever cancel_task calls, retries and monitoring events follow: neither
\* the state in the result backend (SUCCESS, FAILURE, REVOKED) nor the status
\* WorkerMonitor._update_task_status recorded (succeeded, failed).
C31_TerminalStatusNeverChanges ==
    [][\A id \in 1..Len(tasks) :
          /\ tasks[id].state \in {"SUCCESS", "FAILURE", "REVOKED"}
                => tasks'[id].state = tasks[id].state
          /\ monStatus[id] \in {"succeeded", "failed"}
                => monStatus'[id] = monStatus[id]]_vars

(***************************************************************************)
(* WorkerManager (src/harvest/worker_manager.py), the workers and the      *)
(* broker.  A message of a queue is pending in the broker, held by a       *)
(* worker that has received it and not yet started it (prefetched, or      *)
(* waiting for its ETA), or active (being executed).                       *)
(***************************************************************************)
MaxQueued == 2
MaxTarget == 3

\* task_queues of the Celery configuration
Queues == {"default", "download", "browser"}

\* Hostnames of the worker processes an operator may run
WorkerHosts == {"worker-1", "worker-2", "worker-3"}

NoWmCall == [op |-> "None", arg |-> None, res |-> None, responders |-> 0, report |-> <<>>]

WmCall(op, arg, res) == [NoWmCall EXCEPT !.op = op, !.arg = arg, !.res = res]

\* Messages of queue q that are enqueued and not being executed
Waiting(q) == wmQueues[q].pending + wmQueues[q].held

QueueTotal(q) == Waiting(q) + wmQueues[q].active

wmRest == <<monVars, dlVars, eqVars, rlVars, wkVars, delayVars, retryVars, taskVars,
            proxyVars, gpVars, pfVars, mkVars, ctVars>>

\* task.delay(...) / apply_async: a message is published to queue q
SendTask(q) ==
    /\ wmBroker
    /\ QueueTotal(q) < MaxQueued
    /\ wmQueues' = [wmQueues EXCEPT ![q].pending = @ + 1]
    /\ wmLast' = NoWmCall
    /\ UNCHANGED <<wmWorkers, wmBroker>>
    /\ UNCHANGED wmRest

\* A live worker receives a message of queue q from the broker
ReceiveTask(q) ==
    /\ wmBroker
    /\ wmWorkers # {}
    /\ wmQueues[q].pending > 0
    /\ wmQueues' = [wmQueues EXCEPT ![q].pending = @ - 1, ![q].held = @ + 1]
    /\ wmLast' = NoWmCall
    /\ UNCHANGED <<wmWorkers, wmBroker>>
    /\ UNCHANGED wmRest

\* The worker starts to execute a message it holds
ExecuteTask(q) ==
    /\ wmQueues[q].held > 0
    /\ wmQueues' = [wmQueues EXCEPT ![q].held = @ - 1, ![q].active = @ + 1]
    /\ wmLast' = NoWmCall
    /\ UNCHANGED <<wmWorkers, wmBroker>>
    /\ UNCHANGED wmRest

\* An execution ends
CompleteTask(q) ==
    /\ wmQueues[q].active > 0
    /\ wmQueues' = [wmQueues EXCEPT ![q].active = @ - 1]
    /\ wmLast' = NoWmCall
    /\ UNCHANGED <<wmWorkers, wmBroker>>
    /\ UNCHANGED wmRest

\* An operator starts the worker process `hostname` (celery ... worker)
WorkerOnline(hostname) ==
    /\ hostname \notin wmWorkers
    /\ wmWorkers' = wmWorkers \cup {hostname}
    /\ wmLast' = NoWmCall
    /\ UNCHANGED <<wmBroker, wmQueues>>
    /\ UNCHANGED wmRest

\* The broker cannot be reached any more / can be reached again
BrokerFails ==
    /\ wmBroker
    /\ wmBroker' = FALSE
    /\ wmLast' = NoWmCall
    /\ UNCHANGED <<wmWorkers, wmQueues>>
    /\ UNCHANGED wmRest

BrokerRecovers ==
    /\ ~wmBroker
    /\ wmBroker' = TRUE
    /\ wmLast' = NoWmCall
    /\ UNCHANGED <<wmWorkers, wmQueues>>
    /\ UNCHANGED wmRest

\* start_worker(hostname=...): builds the command line, logs it and returns
\* True; no process is started
StartWorker(workers, hostname) == workers

\* stop_worker(hostname): broadcast('shutdown', destination=[hostname]); the
\* worker leaves the set of live workers
StopWorker(workers, hostname) == workers \ {hostname}

RECURSIVE StartWorkers(_, _, _)
\* for i in range(workers_to_add): self.start_worker(hostname=f"worker-{current_workers + i + 1}")
StartWorkers(workers, current_workers, workers_to_add) ==
    IF workers_to_add = 0 THEN workers
    ELSE StartWorkers(StartWorker(workers, current_workers + 1),
                      current_workers + 1, workers_to_add - 1)

RECURSIVE StopWorkers(_, _)
\* for i in range(min(workers_to_remove, len(worker_names))): self.stop_worker(worker_names[i])
StopWorkers(workers, names) ==
    IF names = {} THEN workers
    ELSE LET h == CHOOSE n \in names : TRUE
         IN  StopWorkers(StopWorker(workers, h), names \ {h})

\* scale_workers(target_workers).  inspect.stats() has the replies of the live
\* workers, in the order they arrived: `first` are the names the scale-down
\* loop takes
ScaleWorkers(target_workers, first) ==
    /\ IF ~wmBroker
       THEN /\ first = {}
            /\ wmWorkers' = wmWorkers
            /\ wmLast' = WmCall("scale_workers", target_workers, FALSE)
       ELSE LET current_workers == Cardinality(wmWorkers)
            IN  /\ first \subseteq wmWorkers
                /\ Cardinality(first) = Max(current_workers - target_workers, 0)
                /\ wmWorkers' =
                      IF target_workers > current_workers
                      THEN StartWorkers(wmWorkers, current_workers,
                                        target_workers - current_workers)
                      ELSE StopWorkers(wmWorkers, first)
                /\ wmLast' = WmCall("scale_workers", target_workers, TRUE)
    /\ UNCHANGED <<wmBroker, wmQueues>>
    /\ UNCHANGED wmRest

\* app.control.purge(connection): discards the messages waiting in the broker
\* for every queue of task_queues.  Its one parameter is a connection; given a
\* queue name instead, the consumer it builds on it fails and it raises
ControlPurge(queues, connection) ==
    IF connection # None \/ ~wmBroker
    THEN [raised |-> TRUE, queues |-> queues]
    ELSE [raised |-> FALSE,
          queues |-> [q \in Queues |-> [queues[q] EXCEPT !.pending = 0]]]

\* purge_queue(queue_name): control.purge(queue_name) if a name is given,
\* control.purge() otherwise; True, or False when the call raised
PurgeQueue(queue_name) ==
    /\ LET purged == ControlPurge(wmQueues, queue_name)
       IN  /\ wmQueues' = purged.queues
           /\ wmLast' = WmCall("purge_queue", queue_name, ~purged.raised)
    /\ UNCHANGED <<wmWorkers, wmBroker>>
    /\ UNCHANGED wmRest

NoLengths == [q \in Queues |-> 0]

\* get_queue_lengths(): the tasks of inspect.active(), counted by the
\* routing_key of their delivery_info; {} when the inspection raises.  A queue
\* without an entry is reported with 0
QueueLengths(reachable) ==
    IF reachable /\ wmWorkers # {}
    THEN [q \in Queues |-> wmQueues[q].active]
    ELSE NoLengths

GetQueueLengths ==
    /\ wmLast' = [WmCall("get_queue_lengths", None, IF wmBroker THEN "ok" ELSE "error")
                    EXCEPT !.report = QueueLengths(wmBroker)]
    /\ UNCHANGED <<wmWorkers, wmBroker, wmQueues>>
    /\ UNCHANGED wmRest

\* get_worker_health(): the replies to inspect.ping(), then inspect.stats();
\* {'error': ...} when either raises
WorkerHealth(responding, reachable) ==
    IF reachable
    THEN [error |-> FALSE, total_workers |-> Cardinality(responding),
          responsive_workers |-> Cardinality(responding)]
    ELSE [error |-> TRUE, total_workers |-> 0, responsive_workers |-> 0]

\* system_status, were it 'healthy' whenever the health report has no error
SystemStatusUnlessError(health_status) ==
    IF health_status.error THEN "unhealthy" ELSE "healthy"

\* 'healthy' if health_status.get('responsive_workers', 0) > 0 else 'unhealthy'
SystemStatus(health_status) ==
    IF (IF health_status.error THEN 0 ELSE health_status.responsive_workers) > 0
    THEN "healthy" ELSE "unhealthy"

\* The broker round trips of get_system_status, in order: get_worker_stats (1),
\* get_queue_stats (2), inspect.ping (3) and inspect.stats (4) of
\* get_worker_health, get_queue_lengths (5)
RoundTrips == 1..5

\* get_system_status().  `responding` are the live workers that answer a ping
\* in time; the broker is lost before round trip `lost` (0: not during the
\* call).  Each part catches its own exceptions
GetSystemStatus(responding, lost) ==
    /\ responding \subseteq wmWorkers
    /\ ~wmBroker => (lost = 0 /\ responding = {})
    /\ LET reachable(trip) == wmBroker /\ (lost = 0 \/ lost > trip)
           health_status == WorkerHealth(responding, reachable(3) /\ reachable(4))
           queue_lengths == QueueLengths(reachable(5))
       IN  wmLast' = [op |-> "get_system_status",
                      arg |-> IF ~wmBroker THEN "unreachable"
                              ELSE IF lost = 0 THEN "reachable" ELSE "lost",
                      res |-> SystemStatus(health_status),
                      responders |-> IF reachable(3) THEN Cardinality(responding) ELSE 0,
                      report |-> queue_lengths]
    /\ wmBroker' = (wmBroker /\ lost = 0)
    /\ UNCHANGED <<wmWorkers, wmQueues>>
    /\ UNCHANGED wmRest

\* The workers come and go and are scaled, the broker fails and recovers
NextWorkers ==
    \/ \E hostname \in WorkerHosts : WorkerOnline(hostname)
    \/ BrokerFails
    \/ BrokerRecovers
    \/ \E target_workers \in 0..MaxTarget, first \in SUBSET WorkerHosts :
          ScaleWorkers(target_workers, first)
    \/ \E responding \in SUBSET WorkerHosts, lost \in {0} \cup RoundTrips :
          GetSystemStatus(responding, lost)

\* Some workers are running, the broker is reachable and the queues are empty
InitWorkers ==
    /\ now = 0
    /\ zset = [d \in Domains |-> {}]
    /\ expireAt = [d \in Domains |-> NoTTL]
    /\ argLimit = 0
    /\ argWindow = 0
    /\ admitLog = [d \in Domains |-> <<>>]
    /\ lastOp = NoOp
    /\ nCalls = 0
    /\ wpc = [w \in Workers |-> "idle"]
    /\ wdom = [w \in Workers |-> None]
    /\ wtime = [w \in Workers |-> 0]
    /\ wcount = [w \in Workers |-> 0]
    /\ dConfig = None
    /\ dPrev = NoEval
    /\ dCur = NoEval
    /\ rKind = None
    /\ rConfig = None
    /\ rPc = None
    /\ rAttempt = 0
    /\ rOutcomes = <<>>
    /\ rSleeps = <<>>
    /\ rLast = NoExc
    /\ rResult = NoResult
    /\ tasks = <<>>
    /\ proxies = <<>>
    /\ bad_proxies = {}
    /\ current_index = 0
    /\ max_failures = 0
    /\ rotation_strategy = None
    /\ pmLast = NoCall
    /\ rrLog = <<>>
    /\ gpPc = [w \in Workers |-> "done"]
    /\ gpAvail = [w \in Workers |-> <<>>]
    /\ gpProxy = [w \in Workers |-> 0]
    /\ gpResult = [w \in Workers |-> NoCall]
    /\ pool_file = NoFile
    /\ hcResults = NoResults
    /\ mkPc = [w \in Workers |-> "done"]
    /\ mkOp = [w \in Workers |-> None]
    /\ mkInfo = [w \in Workers |-> 0]
    /\ mkTmp = [w \in Workers |-> 0]
    /\ mkCalls = <<>>
    /\ revoked = {}
    /\ statusLast = NoStatus
    /\ monStatus = <<>>
    /\ monSeen = {}
    /\ wmWorkers \in SUBSET WorkerHosts
    /\ wmBroker = TRUE
    /\ wmQueues = [q \in Queues |-> [pending |-> 0, held |-> 0, active |-> 0]]
    /\ wmLast = NoWmCall
    /\ dlPc = None
    /\ dlAttempt = 0
    /\ dlLog = <<>>
    /\ dlResult = None
    /\ dlMaxRetries = 0
    /\ eRun = <<>>
    /\ eOutcomes = <<>>

SpecWorkers == InitWorkers /\ [][NextWorkers]_vars

\* C32: after scale_workers(target) has returned True the number of live
\* workers equals target, when target was above the current count (scale up)
\* and when it was below (scale down).
C32_ScaleWorkersConverges ==
    (wmLast.op = "scale_workers" /\ wmLast.res = TRUE)
        => Cardinality(wmWorkers) = wmLast.arg

\* Messages pass through the queues while the queues are purged and inspected
NextQueues ==
    \/ \E q \in Queues : SendTask(q)
    \/ \E q \in Queues : ReceiveTask(q)
    \/ \E q \in Queues : ExecuteTask(q)
    \/ \E q \in Queues : CompleteTask(q)
    \/ BrokerFails
    \/ BrokerRecovers
    \/ \E queue_name \in Queues \cup {None} : PurgeQueue(queue_name)
    \/ GetQueueLengths
    \/ \E responding \in SUBSET WorkerHosts, lost \in {0} \cup RoundTrips :
          GetSystemStatus(responding, lost)

\* No worker or one worker is running, the broker is reachable and the queues
\* are empty
InitQueues ==
    /\ now = 0
    /\ zset = [d \in Domains |-> {}]
    /\ expireAt = [d \in Domains |-> NoTTL]
    /\ argLimit = 0
    /\ argWindow = 0
    /\ admitLog = [d \in Domains |-> <<>>]
    /\ lastOp = NoOp
    /\ nCalls = 0
    /\ wpc = [w \in Workers |-> "idle"]
    /\ wdom = [w \in Workers |-> None]
    /\ wtime = [w \in Workers |-> 0]
    /\ wcount = [w \in Workers |-> 0]
    /\ dConfig = None
    /\ dPrev = NoEval
    /\ dCur = NoEval
    /\ rKind = None
    /\ rConfig = None
    /\ rPc = None
    /\ rAttempt = 0
    /\ rOutcomes = <<>>
    /\ rSleeps = <<>>
    /\ rLast = NoExc
    /\ rResult = NoResult
    /\ tasks = <<>>
    /\ proxies = <<>>
    /\ bad_proxies = {}
    /\ current_index = 0
    /\ max_failures = 0
    /\ rotation_strategy = None
    /\ pmLast = NoCall
    /\ rrLog = <<>>
    /\ gpPc = [w \in Workers |-> "done"]
    /\ gpAvail = [w \in Workers |-> <<>>]
    /\ gpProxy = [w \in Workers |-> 0]
    /\ gpResult = [w \in Workers |-> NoCall]
    /\ pool_file = NoFile
    /\ hcResults = NoResults
    /\ mkPc = [w \in Workers |-> "done"]
    /\ mkOp = [w \in Workers |-> None]
    /\ mkInfo = [w \in Workers |-> 0]
    /\ mkTmp = [w \in Workers |-> 0]
    /\ mkCalls = <<>>
    /\ revoked = {}
    /\ statusLast = NoStatus
    /\ monStatus = <<>>
    /\ monSeen = {}
    /\ wmWorkers \in {{}, {"worker-1"}}
    /\ wmBroker = TRUE
    /\ wmQueues = [q \in Queues |-> [pending |-> 0, held |-> 0, active |-> 0]]
    /\ wmLast = NoWmCall
    /\ dlPc = None
    /\ dlAttempt = 0
    /\ dlLog = <<>>
    /\ dlResult = None
    /\ dlMaxRetries = 0
    /\ eRun = <<>>
    /\ eOutcomes = <<>>

SpecQueues == InitQueues /\ [][NextQueues]_vars

\* C33: with the broker reachable, purge_queue(name) discards exactly the
\* messages of the named queue that are not being executed: that queue has
\* none waiting afterwards, the messages being executed and the other queues
\* are as before; purge_queue(None) does so for every queue.
C33_PurgeDiscardsExactlyPending ==
    [][(wmLast'.op = "purge_queue" /\ wmBroker)
          => \A q \in Queues :
                IF wmLast'.arg \in {q, None}
                THEN /\ wmQueues'[q].pending + wmQueues'[q].held = 0
                     /\ wmQueues'[q].active = wmQueues[q].active
                ELSE wmQueues'[q] = wmQueues[q]]_vars

C40_QueueLengthsArePending ==
    ((wmLast.op = "get_queue_lengths" /\ wmLast.res = "ok")
        \/ (wmLast.op = "get_system_status" /\ wmLast.arg = "reachable"))
        => \A q \in Queues : wmLast.report[q] = Waiting(q)

(***************************************************************************)
(* The per-domain rate table of src/harvest/tasks.py and the admission of  *)
(* download_image_task.                                                    *)
(***************************************************************************)
\* DOMAIN_RATE_LIMITS
DOMAIN_RATE_LIMITS ==
    [domain \in {"unsplash.com", "pixabay.com", "pexels.com", "google.com",
                 "bing.com", "default"} |->
        CASE domain = "unsplash.com" -> [limit |-> 1, window |-> 5]
          [] domain = "pixabay.com" -> [limit |-> 1, window |-> 10]
          [] domain = "pexels.com" -> [limit |-> 1, window |-> 8]
          [] domain = "google.com" -> [limit |-> 1, window |-> 15]
          [] domain = "bing.com" -> [limit |-> 1, window |-> 12]
          [] OTHER -> [limit |-> 1, window |-> 5]]

\* get_domain_rate_limit(domain)
GetDomainRateLimit(domain) ==
    IF domain \in DOMAIN DOMAIN_RATE_LIMITS
    THEN DOMAIN_RATE_LIMITS[domain]
    ELSE DOMAIN_RATE_LIMITS["default"]

\* The download items are executed, each when a worker takes it, while the
\* clock goes on
NextRateTable ==
    \/ \E id \in TaskIds : RunDownloadDenied(id)
    \/ \E id \in TaskIds, outcome \in {"downloaded", "duplicate", "failed", "raise"},
          jitter \in RandomUniform(0, 30) : RunDownloadAdmitted(id, outcome, jitter)
    \/ \E id \in TaskIds : Elapse(id)
    \/ Tick

\* Valid download items are enqueued, the limiter's store is empty
InitRateTable ==
    /\ now = 0
    /\ zset = [d \in Domains |-> {}]
    /\ expireAt = [d \in Domains |-> NoTTL]
    /\ argLimit = 0
    /\ argWindow = 0
    /\ admitLog = [d \in Domains |-> <<>>]
    /\ lastOp = NoOp
    /\ nCalls = 0
    /\ wpc = [w \in Workers |-> "idle"]
    /\ wdom = [w \in Workers |-> None]
    /\ wtime = [w \in Workers |-> 0]
    /\ wcount = [w \in Workers |-> 0]
    /\ dConfig = None
    /\ dPrev = NoEval
    /\ dCur = NoEval
    /\ rKind = None
    /\ rConfig = None
    /\ rPc = None
    /\ rAttempt = 0
    /\ rOutcomes = <<>>
    /\ rSleeps = <<>>
    /\ rLast = NoExc
    /\ rResult = NoResult
    /\ tasks \in UNION {[1..n -> CancelItems] : n \in LiveQueueLengths}
    /\ proxies = <<>>
    /\ bad_proxies = {}
    /\ current_index = 0
    /\ max_failures = 0
    /\ rotation_strategy = None
    /\ pmLast = NoCall
    /\ rrLog = <<>>
    /\ gpPc = [w \in Workers |-> "done"]
    /\ gpAvail = [w \in Workers |-> <<>>]
    /\ gpProxy = [w \in Workers |-> 0]
    /\ gpResult = [w \in Workers |-> NoCall]
    /\ pool_file = NoFile
    /\ hcResults = NoResults
    /\ mkPc = [w \in Workers |-> "done"]
    /\ mkOp = [w \in Workers |-> None]
    /\ mkInfo = [w \in Workers |-> 0]
    /\ mkTmp = [w \in Workers |-> 0]
    /\ mkCalls = <<>>
    /\ revoked = {}
    /\ statusLast = NoStatus
    /\ monStatus = <<>>
    /\ monSeen = {}
    /\ wmWorkers = {}
    /\ wmBroker = None
    /\ wmQueues = <<>>
    /\ wmLast = NoCall
    /\ dlPc = None
    /\ dlAttempt = 0
    /\ dlLog = <<>>
    /\ dlResult = None
    /\ dlMaxRetries = 0
    /\ eRun = <<>>
    /\ eOutcomes = <<>>

SpecRateTable == InitRateTable /\ [][NextRateTable]_vars

\* C35: the admission of a download uses the limit and window that the
\* per-domain rate table has for the item's domain, and the default only for
\* a domain without an entry: of the downloads admitted for a domain, at most
\* `limit` lie within any `window` seconds of the table's values.
C35_AdmissionUsesDomainTable ==
    \A d \in Domains :
        \A j \in 1..Len(admitLog[d]) :
            Cardinality({i \in 1..j :
                admitLog[d][i] > admitLog[d][j] - GetDomainRateLimit(d).window})
              <= GetDomainRateLimit(d).limit

(***************************************************************************)
(* Round-robin rotation over a set of active proxies that shrinks.  As in  *)
(* the weighted scenario above, _get_round_robin_proxy is applied to the   *)
(* list the filter of get_proxy is written to produce, the active proxies  *)
(* outside the bad set (get_proxy itself raises TypeError at that filter). *)
(***************************************************************************)
MaxRotationCalls == 4

\* The proxies of the configuration, in list order
RotationHosts == <<"a.example.com", "b.example.com", "c.example.com">>

\* self._get_round_robin_proxy(available_proxies); the call is logged with the
\* positions that were available when it was made
CallGetRoundRobinProxy ==
    /\ Len(rrLog) < MaxRotationCalls
    /\ LET available == AvailableProxies
       IN  /\ available # <<>>
           /\ LET r == GetRoundRobinProxy(available, current_index)
              IN  /\ current_index' = r.index
                  /\ pmLast' = [op |-> "_get_round_robin_proxy", idx |-> r.proxy,
                                res |-> "proxy"]
                  /\ rrLog' = Append(rrLog,
                        [idx |-> r.proxy,
                         active |-> {available[k] : k \in 1..Len(available)}])
    /\ UNCHANGED <<proxies, bad_proxies, max_failures, rotation_strategy>>
    /\ UNCHANGED <<rlVars, wkVars, delayVars, retryVars, taskVars, gpVars,
                 pfVars, mkVars, ctVars, opsVars>>

\* mark_bad(proxy) for the record at position i, between two calls of the
\* rotation: the counter, then the flag once max_failures is reached
MarkBadInRotation(i) ==
    /\ i \in 1..Len(proxies)
    /\ proxies[i].is_active
    /\ proxies' = [proxies EXCEPT ![i] = WithFailure(@, max_failures)]
    /\ pmLast' = [op |-> "mark_bad", idx |-> i,
                  res |-> IF proxies'[i].failure_count >= max_failures /\ HashRaises
                          THEN "TypeError" ELSE "None"]
    /\ UNCHANGED <<bad_proxies, current_index, max_failures, rotation_strategy, rrLog>>
    /\ UNCHANGED <<rlVars, wkVars, delayVars, retryVars, taskVars, gpVars,
                 pfVars, mkVars, ctVars, opsVars>>

NextRotation ==
    \/ CallGetRoundRobinProxy
    \/ \E i \in 1..Len(RotationHosts) : MarkBadInRotation(i)

\* One to three fresh proxies under round_robin, the cursor at 0
InitRotation ==
    /\ now = 0
    /\ zset = [d \in Domains |-> {}]
    /\ expireAt = [d \in Domains |-> NoTTL]
    /\ argLimit = 0
    /\ argWindow = 0
    /\ admitLog = [d \in Domains |-> <<>>]
    /\ lastOp = NoOp
    /\ nCalls = 0
    /\ wpc = [w \in Workers |-> "idle"]
    /\ wdom = [w \in Workers |-> None]
    /\ wtime = [w \in Workers |-> 0]
    /\ wcount = [w \in Workers |-> 0]
    /\ dConfig = None
    /\ dPrev = NoEval
    /\ dCur = NoEval
    /\ rKind = None
    /\ rConfig = None
    /\ rPc = None
    /\ rAttempt = 0
    /\ rOutcomes = <<>>
    /\ rSleeps = <<>>
    /\ rLast = NoExc
    /\ rResult = NoResult
    /\ tasks = <<>>
    /\ proxies \in {[i \in 1..n |-> ProxyInfo(RotationHosts[i])] : n \in 1..Len(RotationHosts)}
    /\ bad_proxies = {}
    /\ current_index = 0
    /\ max_failures \in {1, 2}
    /\ rotation_strategy = "round_robin"
    /\ pmLast = NoCall
    /\ rrLog = <<>>
    /\ gpPc = [w \in Workers |-> "done"]
    /\ gpAvail = [w \in Workers |-> <<>>]
    /\ gpProxy = [w \in Workers |-> 0]
    /\ gpResult = [w \in Workers |-> NoCall]
    /\ pool_file = NoFile
    /\ hcResults = NoResults
    /\ mkPc = [w \in Workers |-> "done"]
    /\ mkOp = [w \in Workers |-> None]
    /\ mkInfo = [w \in Workers |-> 0]
    /\ mkTmp = [w \in Workers |-> 0]
    /\ mkCalls = <<>>
    /\ revoked = {}
    /\ statusLast = NoStatus
    /\ monStatus = <<>>
    /\ monSeen = {}
    /\ wmWorkers = {}
    /\ wmBroker = None
    /\ wmQueues = <<>>
    /\ wmLast = NoCall
    /\ dlPc = None
    /\ dlAttempt = 0
    /\ dlLog = <<>>
    /\ dlResult = None
    /\ dlMaxRetries = 0
    /\ eRun = <<>>
    /\ eOutcomes = <<>>

SpecRotation == InitRotation /\ [][NextRotation]_vars

\* C36: under round_robin, also when proxies are deactivated by mark_bad in
\* the middle of a rotation: between two returns of one proxy, every other
\* proxy that was active at each call from the first of them to the second
\* has been returned.
C36_CoverageWhenActiveSetShrinks ==
    \A k, l \in 1..Len(rrLog) :
        (k < l /\ rrLog[k].idx = rrLog[l].idx)
            => \A q \in 1..Len(proxies) :
                  (\A m \in k..l : q \in rrLog[m].active)
                      => \E m \in k..l : rrLog[m].idx = q

(***************************************************************************)
(* Proxies that share host and port.  get_proxy hands out the dictionary   *)
(* _proxy_to_dict builds for the record it selected; mark_bad and          *)
(* mark_success look the record up again from that dictionary.  As in the  *)
(* rotation above, get_proxy is taken from its selection on.               *)
(***************************************************************************)
\* ProxyInfo(host=..., port=..., username=..., password=..., protocol=...)
ProxyInfoWith(host, username, protocol) ==
    [host |-> host, username |-> username, protocol |-> protocol,
     success_count |-> 0, failure_count |-> 0, is_active |-> TRUE]

\* The records a configuration can name: with or without credentials, over
\* http or socks5
CredentialRecords ==
    {ProxyInfoWith(h, u, pr) : h \in Hosts, u \in {None, "user1", "user2"},
                               pr \in {"http", "socks5"}}

\* Pools of one or two different records
CredentialPools ==
    {pool \in UNION {[1..n -> CredentialRecords] : n \in 1..MaxProxies} :
        \A i, j \in 1..Len(pool) : i # j => pool[i] # pool[j]}

\* get_proxy, from the selection on: the strategy has selected the record at
\* position i, and its dictionary is returned
GetProxySelected(i) ==
    /\ i \in 1..Len(proxies)
    /\ IsAvailable(i)
    /\ rrLog' = <<[idx |-> i, dict |-> ProxyToDict(proxies[i])]>>
    /\ pmLast' = [op |-> "get_proxy", idx |-> i, res |-> "proxy"]
    /\ UNCHANGED <<proxies, bad_proxies, current_index, max_failures, rotation_strategy>>
    /\ UNCHANGED <<rlVars, wkVars, delayVars, retryVars, taskVars, gpVars,
                 pfVars, mkVars, ctVars, opsVars>>

\* mark_bad(p) / mark_success(p) with the dictionary p that get_proxy returned
MarkBadReturned ==
    /\ rrLog # <<>>
    /\ MarkBad(rrLog[1].dict)

MarkSuccessReturned ==
    /\ rrLog # <<>>
    /\ MarkSuccess(rrLog[1].dict)

NextCredentials ==
    \/ \E i \in 1..MaxProxies : GetProxySelected(i)
    \/ MarkBadReturned
    \/ MarkSuccessReturned

\* A ProxyManager with the proxies of its configuration, all fresh
InitCredentials ==
    /\ now = 0
    /\ zset = [d \in Domains |-> {}]
    /\ expireAt = [d \in Domains |-> NoTTL]
    /\ argLimit = 0
    /\ argWindow = 0
    /\ admitLog = [d \in Domains |-> <<>>]
    /\ lastOp = NoOp
    /\ nCalls = 0
    /\ wpc = [w \in Workers |-> "idle"]
    /\ wdom = [w \in Workers |-> None]
    /\ wtime = [w \in Workers |-> 0]
    /\ wcount = [w \in Workers |-> 0]
    /\ dConfig = None
    /\ dPrev = NoEval
    /\ dCur = NoEval
    /\ rKind = None
    /\ rConfig = None
    /\ rPc = None
    /\ rAttempt = 0
    /\ rOutcomes = <<>>
    /\ rSleeps = <<>>
    /\ rLast = NoExc
    /\ rResult = NoResult
    /\ tasks = <<>>
    /\ proxies \in CredentialPools
    /\ bad_proxies = {}
    /\ current_index = 0
    /\ max_failures \in {1, 2}
    /\ rotation_strategy \in Strategies
    /\ pmLast = NoCall
    /\ rrLog = <<>>
    /\ gpPc = [w \in Workers |-> "done"]
    /\ gpAvail = [w \in Workers |-> <<>>]
    /\ gpProxy = [w \in Workers |-> 0]
    /\ gpResult = [w \in Workers |-> NoCall]
    /\ pool_file = NoFile
    /\ hcResults = NoResults
    /\ mkPc = [w \in Workers |-> "done"]
    /\ mkOp = [w \in Workers |-> None]
    /\ mkInfo = [w \in Workers |-> 0]
    /\ mkTmp = [w \in Workers |-> 0]
    /\ mkCalls = <<>>
    /\ revoked = {}
    /\ statusLast = NoStatus
    /\ monStatus = <<>>
    /\ monSeen = {}
    /\ wmWorkers = {}
    /\ wmBroker = None
    /\ wmQueues = <<>>
    /\ wmLast = NoCall
    /\ dlPc = None
    /\ dlAttempt = 0
    /\ dlLog = <<>>
    /\ dlResult = None
    /\ dlMaxRetries = 0
    /\ eRun = <<>>
    /\ eOutcomes = <<>>

SpecCredentials == InitCredentials /\ [][NextCredentials]_vars

\* C37: mark_bad(p) and mark_success(p), called with the dictionary p that
\* get_proxy returned, update the counters of the record that get_proxy
\* selected and of no other, also when two records of the pool have the same
\* host and port and differ in credentials or protocol.
C37_MarkUpdatesSelectedRecord ==
    [][(rrLog # <<>> /\ pmLast'.op \in {"mark_bad", "mark_success"})
          => /\ pmLast'.idx = rrLog[1].idx
             /\ \A j \in 1..Len(proxies) :
                   j # rrLog[1].idx => proxies'[j] = proxies[j]]_vars

(***************************************************************************)
(* download_and_store_with_proxy (src/harvest/proxy_downloader.py): the    *)
(* attempt loop over the ProxyManager of Part 5.  One entry of dlLog per   *)
(* attempt:                                                                *)
(*   acquired  what proxy_manager.get_proxy() did: "proxy", "None",        *)
(*             "TypeError"                                                 *)
(*   proxy     position of the proxy the attempt holds, 0 for None         *)
(*   request   whether client.get(url) was called                          *)
(*   marks     the mark_success / mark_bad calls of the attempt, in order  *)
(***************************************************************************)
MaxDlRetries == 3

\* What an attempt meets once get_proxy has returned:
\*   "http_error"     client.get or raise_for_status raises httpx.HTTPError
\*   "not_image"      the content type is not image/*
\*   "duplicate"      find_by_md5 finds the MD5
\*   "invalid_image"  Pillow cannot open the file
\*   "downloaded"     the image is stored and inserted
\*   "error"          writing the file, the database or the rename raises
AttemptCourses ==
    {"http_error", "not_image", "duplicate", "invalid_image", "downloaded", "error"}

\* The mark_success / mark_bad calls of an attempt that holds a proxy
AttemptMarks(course) ==
    CASE course = "http_error" -> <<"mark_bad">>
      [] course = "error" -> <<"mark_success", "mark_bad">>
      [] OTHER -> <<"mark_success">>

\* result['status'] an attempt returns with, None if it does not return
AttemptStatus(course) ==
    CASE course \in {"not_image", "invalid_image"} -> "failed"
      [] course = "duplicate" -> "duplicate"
      [] course = "downloaded" -> "downloaded"
      [] OTHER -> None

RECURSIVE Marked(_, _, _)
\* The pool after the marks of an attempt on the record at position i
Marked(seq, i, marks) ==
    IF marks = <<>> THEN seq
    ELSE Marked([seq EXCEPT ![i] = IF Head(marks) = "mark_success"
                                   THEN WithSuccess(@)
                                   ELSE WithFailure(@, max_failures)],
                i, Tail(marks))

\* One iteration of `for attempt in range(max_retries)`
DownloadAttempt(course) ==
    /\ dlPc = "loop"
    /\ \E o \in GetProxyOutcomes :
          LET i == IF o.res = "proxy" THEN FindProxyByDict(ProxyToDict(proxies[o.idx]))
                   ELSE 0
              raised == o.res = "TypeError"
              marks == IF i = 0 THEN <<>> ELSE AttemptMarks(course)
              pool == Marked(proxies, i, marks)
              \* mark_bad raises inside the except clause when it deactivates
              \* the record: the exception leaves the function
              escapes == /\ i # 0
                         /\ marks[Len(marks)] = "mark_bad"
                         /\ pool[i].failure_count >= max_failures
                         /\ HashRaises
              status == IF raised THEN None ELSE AttemptStatus(course)
          IN  /\ raised => course = "error"
              /\ current_index' = o.index
              /\ proxies' = pool
              /\ dlLog' = Append(dlLog, [acquired |-> o.res, proxy |-> i,
                                         request |-> ~raised, marks |-> marks])
              /\ dlAttempt' = dlAttempt + 1
              /\ IF escapes
                 THEN dlPc' = "raised" /\ dlResult' = None
                 ELSE IF status # None
                 THEN dlPc' = "returned" /\ dlResult' = status
                 ELSE IF dlAttempt < dlMaxRetries - 1
                 THEN dlPc' = "loop" /\ dlResult' = dlResult
                 ELSE dlPc' = "returned" /\ dlResult' = "failed"
    /\ pmLast' = [op |-> "download_and_store_with_proxy", idx |-> dlAttempt, res |-> course]
    /\ UNCHANGED <<bad_proxies, max_failures, rotation_strategy, rrLog, dlMaxRetries>>
    /\ UNCHANGED <<monVars, wmVars, eqVars>>
    /\ UNCHANGED <<rlVars, wkVars, delayVars, retryVars, taskVars, gpVars,
                 pfVars, mkVars, ctVars>>

NextProxyDl == \E course \in AttemptCourses : DownloadAttempt(course)

\* download_and_store_with_proxy is entered with the ProxyManager in some
\* state of its pool
InitProxyDl ==
    /\ now = 0
    /\ zset = [d \in Domains |-> {}]
    /\ expireAt = [d \in Domains |-> NoTTL]
    /\ argLimit = 0
    /\ argWindow = 0
    /\ admitLog = [d \in Domains |-> <<>>]
    /\ lastOp = NoOp
    /\ nCalls = 0
    /\ wpc = [w \in Workers |-> "idle"]
    /\ wdom = [w \in Workers |-> None]
    /\ wtime = [w \in Workers |-> 0]
    /\ wcount = [w \in Workers |-> 0]
    /\ dConfig = None
    /\ dPrev = NoEval
    /\ dCur = NoEval
    /\ rKind = None
    /\ rConfig = None
    /\ rPc = None
    /\ rAttempt = 0
    /\ rOutcomes = <<>>
    /\ rSleeps = <<>>
    /\ rLast = NoExc
    /\ rResult = NoResult
    /\ tasks = <<>>
    /\ proxies \in ConcPools
    /\ bad_proxies = {}
    /\ current_index = 0
    /\ max_failures \in {1, 3}
    /\ rotation_strategy \in Strategies
    /\ pmLast = NoCall
    /\ rrLog = <<>>
    /\ gpPc = [w \in Workers |-> "done"]
    /\ gpAvail = [w \in Workers |-> <<>>]
    /\ gpProxy = [w \in Workers |-> 0]
    /\ gpResult = [w \in Workers |-> NoCall]
    /\ pool_file = NoFile
    /\ hcResults = NoResults
    /\ mkPc = [w \in Workers |-> "done"]
    /\ mkOp = [w \in Workers |-> None]
    /\ mkInfo = [w \in Workers |-> 0]
    /\ mkTmp = [w \in Workers |-> 0]
    /\ mkCalls = <<>>
    /\ revoked = {}
    /\ statusLast = NoStatus
    /\ monStatus = <<>>
    /\ monSeen = {}
    /\ wmWorkers = {}
    /\ wmBroker = None
    /\ wmQueues = <<>>
    /\ wmLast = NoCall
    /\ dlPc = "loop"
    /\ dlAttempt = 0
    /\ dlLog = <<>>
    /\ dlResult = "failed"
    /\ dlMaxRetries \in 1..MaxDlRetries
    /\ eRun = <<>>
    /\ eOutcomes = <<>>

SpecProxyDl == InitProxyDl /\ [][NextProxyDl]_vars

\* C38: download_and_store_with_proxy makes at most max_retries attempts.
\* Every attempt acquires a proxy from get_proxy or, when get_proxy returns
\* None, sends its request over a direct connection; an attempt that holds a
\* proxy records exactly one outcome for it, one mark_success or one mark_bad,
\* and an attempt without a proxy records none.
C38_OneOutcomePerProxiedAttempt ==
    /\ Len(dlLog) <= dlMaxRetries
    /\ \A k \in 1..Len(dlLog) :
          /\ dlLog[k].acquired \in {"proxy", "None"}
          /\ dlLog[k].request
          /\ dlLog[k].proxy # 0 => Len(dlLog[k].marks) = 1
          /\ dlLog[k].proxy = 0 => dlLog[k].marks = <<>>

(***************************************************************************)
(* The retry executors side by side.  retry_with_backoff, its async twin   *)
(* and RetryableHTTPClient.get / post each carry their own copy of the     *)
(* loop; here the four run on one RetryConfig and are handed, attempt by   *)
(* attempt, the same outcome and the same random.uniform draw.             *)
(*   eRun[k]    [pc, attempt, calls, sleeps, result] of executor k         *)
(*   eOutcomes  the outcomes handed out so far                             *)
(***************************************************************************)
Kinds == {"decorator", "async", "get", "post"}

\* The RetryConfig objects the executors are compared on
EquivConfigs ==
    [max_retries : 0..MaxRetriesBound, base_delay : {1000}, max_delay : {60000},
     exponential_base : {4}, jitter : BOOLEAN,
     retryable_exceptions : {DefaultRetryable, {"TimeoutException"}}]

\* Where random.uniform(-r, r) falls: at an end, a quarter point or the middle
Draws == {-2, -1, 0, 1, 2}

UniformAt(r, u) ==
    CASE u = -2 -> -r
      [] u = -1 -> -(r \div 2)
      [] u = 1  -> r \div 2
      [] u = 2  -> r
      [] OTHER  -> 0

\* calculate_delay(attempt, config) when random.uniform draws u
CalculateDelay(attempt, config, u) ==
    LET delay == CappedDelay(attempt, config)
        jitter_range == delay \div 10
    IN  IF config.jitter
        THEN Max(0, delay + UniformAt(jitter_range, u))
        ELSE Max(0, delay)

\* One attempt's outcome as the operation of executor kind presents it: the
\* client's operation is the HTTP request, which ends with a response or an
\* exception; the wrapped function ends with a value or an exception, and a
\* server error reaches it as the HTTPStatusError of raise_for_status()
Invocation(kind, outcome) ==
    IF kind \in {"get", "post"}
    THEN IF outcome.how = "value"
         THEN [how |-> "response", exc |-> Exc("Response", 200)]
         ELSE outcome
    ELSE IF outcome.how = "response"
         THEN IF 500 <= outcome.exc.status /\ outcome.exc.status < 600
              THEN [how |-> "raise", exc |-> Exc("HTTPStatusError", outcome.exc.status)]
              ELSE [how |-> "value", exc |-> NoExc]
         ELSE outcome

\* An executor on entry: range(config.max_retries + 1) is never empty
EnterExecutor ==
    [pc |-> "loop", attempt |-> 0, calls |-> 0, sleeps |-> <<>>, result |-> NoResult]

\* One iteration of `for attempt in range(config.max_retries + 1)` of the
\* executor kind, and `raise last_exception` when the loop is left
ExecutorStep(kind, run, outcome, config, u) ==
    LET inv == Invocation(kind, outcome)
        e == Raised(kind, inv)
    IN  IF run.pc # "loop" THEN run
        ELSE IF e = NoExc
        THEN [run EXCEPT !.pc = "returned", !.calls = @ + 1,
                         !.result = [how |-> "return", value |-> inv.exc]]
        ELSE IF AfterFailure(run.attempt, e, config) \in {"exhausted", "permanent"}
        THEN [run EXCEPT !.pc = "raised", !.calls = @ + 1,
                         !.result = [how |-> "raise", value |-> e]]
        ELSE [run EXCEPT !.attempt = @ + 1, !.calls = @ + 1,
                         !.sleeps = Append(@, CalculateDelay(run.attempt, config, u)),
                         !.pc = IF run.attempt + 1 < config.max_retries + 1
                                THEN "loop" ELSE "raised",
                         !.result = IF run.attempt + 1 < config.max_retries + 1
                                    THEN @ ELSE [how |-> "raise", value |-> e]]

\* Every executor still in its loop makes its next attempt
AttemptAll(outcome, u) ==
    /\ \E k \in Kinds : eRun[k].pc = "loop"
    /\ eRun' = [k \in Kinds |-> ExecutorStep(k, eRun[k], outcome, rConfig, u)]
    /\ eOutcomes' = Append(eOutcomes, outcome)
    /\ UNCHANGED <<rKind, rConfig, rPc, rAttempt, rOutcomes, rSleeps, rLast, rResult>>
    /\ UNCHANGED <<rlVars, wkVars, delayVars, taskVars, proxyVars, gpVars,
                 pfVars, mkVars, ctVars, monVars, wmVars, dlVars>>

NextEquiv ==
    \E outcome \in ClientOutcomes \cup FuncOutcomes : \E u \in Draws : AttemptAll(outcome, u)

\* The four executors entered with one RetryConfig, before the first attempt
InitEquiv ==
    /\ now = 0
    /\ zset = [d \in Domains |-> {}]
    /\ expireAt = [d \in Domains |-> NoTTL]
    /\ argLimit = 0
    /\ argWindow = 0
    /\ admitLog = [d \in Domains |-> <<>>]
    /\ lastOp = NoOp
    /\ nCalls = 0
    /\ wpc = [w \in Workers |-> "idle"]
    /\ wdom = [w \in Workers |-> None]
    /\ wtime = [w \in Workers |-> 0]
    /\ wcount = [w \in Workers |-> 0]
    /\ dConfig = None
    /\ dPrev = NoEval
    /\ dCur = NoEval
    /\ rKind = None
    /\ rConfig \in EquivConfigs
    /\ rPc = None
    /\ rAttempt = 0
    /\ rOutcomes = <<>>
    /\ rSleeps = <<>>
    /\ rLast = NoExc
    /\ rResult = NoResult
    /\ tasks = <<>>
    /\ proxies = <<>>
    /\ bad_proxies = {}
    /\ current_index = 0
    /\ max_failures = 0
    /\ rotation_strategy = None
    /\ pmLast = NoCall
    /\ rrLog = <<>>
    /\ gpPc = [w \in Workers |-> "done"]
    /\ gpAvail = [w \in Workers |-> <<>>]
    /\ gpProxy = [w \in Workers |-> 0]
    /\ gpResult = [w \in Workers |-> NoCall]
    /\ pool_file = NoFile
    /\ hcResults = NoResults
    /\ mkPc = [w \in Workers |-> "done"]
    /\ mkOp = [w \in Workers |-> None]
    /\ mkInfo = [w \in Workers |-> 0]
    /\ mkTmp = [w \in Workers |-> 0]
    /\ mkCalls = <<>>
    /\ revoked = {}
    /\ statusLast = NoStatus
    /\ monStatus = <<>>
    /\ monSeen = {}
    /\ wmWorkers = {}
    /\ wmBroker = None
    /\ wmQueues = <<>>
    /\ wmLast = NoCall
    /\ dlPc = None
    /\ dlAttempt = 0
    /\ dlLog = <<>>
    /\ dlResult = None
    /\ dlMaxRetries = 0
    /\ eRun = [k \in Kinds |-> EnterExecutor]
    /\ eOutcomes = <<>>

SpecEquiv == InitEquiv /\ [][NextEquiv]_vars

\* How an executor ended: the exception raised, or that it returned
Ending(run) ==
    IF run.result.how = "raise" THEN run.result ELSE [how |-> run.result.how, value |-> NoExc]

====
